---------------------------- MODULE Spec2Model ----------------------------
(***************************************************************************)
(* A model of singn/nova:                                                  *)
(*   - the glance client wrapper exercised by nova/tests/image/test_glance *)
(*     (specification SpecGlance);                                         *)
(*   - the NetApp 7-mode iSCSI volume driver, nova/volume/netapp.py:       *)
(*     volumes, datasets and the discovery cache (specification Spec),     *)
(*     LUN masking on the filer (specification SpecMap), cached lookups    *)
(*     (SpecCache), discovery over a server as found (SpecDiscover),       *)
(*     dataset creation under each accepted configuration (SpecDataset),   *)
(*     the iteration protocol (SpecIter), job polling (SpecJob, SpecPoll), *)
(*     clone polling (SpecClone), setup (SpecSetup), attaching a volume    *)
(*     (SpecAttach), callers of create_volume running at the same time     *)
(*     (SpecConcurrent), projects whose dataset names coincide             *)
(*     (SpecTenants) and volumes cloned from snapshots (SpecSnapshot);     *)
(*   - the conversion of image metadata to and from strings exercised by   *)
(*     test_glance (SpecCodec);                                            *)
(*   - the lookup tables of the NetApp C-mode driver (SpecCmode).          *)
(* Each specification leaves the variables of the other parts unchanged.   *)
(***************************************************************************)
EXTENDS Integers, Sequences, FiniteSets, TLC

VARIABLES
    \* ---- glance client wrapper ----
    shuffle,        \* what random.shuffle does to a 3-element list if called now
    wrapper,        \* the GlanceClientWrapper under observation
    lastCall,       \* the attempts and result of its last call()
    \* ---- NetAppISCSIDriver ----
    discovered_luns,         \* self.discovered_luns
    discovered_datasets,     \* self.discovered_datasets
    lun_table,               \* self.lun_table
    storage_service,         \* self.storage_service ("" when unset)
    storage_service_prefix,  \* self.storage_service_prefix ("" when unset)
    \* ---- the DFM server the driver talks to ----
    srvDatasets,    \* the datasets the server holds
    srvLuns,        \* the LUNs (dataset members) the server holds
    nextId,         \* the next dataset id and LUN id the server hands out
    destroyed,      \* the LUNs the server destroyed, each with the volume
                    \* whose delete_volume destroyed it
    looked,         \* per volume name, the Lun that the last create_export
                    \* which had to scan discovered_luns put into lun_table
                    \* (history kept for create_export only)
    \* ---- the filer (storage system) behind the DFM proxy ----
    igroups,        \* its initiator groups, in the order it lists them
    lunMaps,        \* its LUN-to-igroup mappings
    \* ---- functions observed on their own ----
    iter,           \* the last run of an enumerating function: calls, outcome
    job,            \* the last run of _wait_for_job: polls, calls, outcome
    clone,          \* the run of _clone_lun and the clone operation on the filer
    \* ---- what do_setup sets ----
    client,         \* self.client ("" before _create_client)
    vfiler,         \* self.vfiler ("" when unset)
    \* ---- image metadata conversion ----
    codec,          \* a metadata mapping, what _convert_to_string made of it
                    \* and what _convert_from_string made of that
    \* ---- NetAppCmodeISCSIDriver ----
    cm,             \* self.luns, self.lun_table and its last lookup
    \* ---- callers of create_volume running at the same time ----
    callers,        \* where each caller stands in _provision and what it
                    \* holds; whether something outside the driver lets
                    \* only one of them run at a time
    \* ---- observation ----
    last            \* the driver operation in progress once it has run and
                    \* before its caller has taken the outcome: inputs,
                    \* remote calls, result (NoOp when the driver is idle)

glanceVars == <<shuffle, wrapper, lastCall>>

driverVars == <<discovered_luns, discovered_datasets, lun_table,
                storage_service, storage_service_prefix,
                srvDatasets, srvLuns, nextId, destroyed, looked, last>>

filerVars == <<igroups, lunMaps>>

asideVars == <<clone, client, vfiler, codec, cm, callers>>

\* What the driver's operations on datasets and LUNs leave alone, and what
\* the wrapper's leave alone.
outsideDriver == <<glanceVars, filerVars, iter, job, asideVars>>

outsideGlance == <<driverVars, filerVars, iter, job, asideVars>>

\* What the mapping functions leave alone besides the driver's tables and
\* the DFM server.
outsideFiler == <<glanceVars, iter, job, asideVars>>

vars == <<shuffle, wrapper, lastCall, discovered_luns, discovered_datasets,
          lun_table, storage_service, storage_service_prefix,
          srvDatasets, srvLuns, nextId, destroyed, looked, igroups, lunMaps,
          iter, job, clone, client, vfiler, codec, cm, callers,
          last>>

(***************************************************************************)
(*                      PART 1: glance client wrapper                      *)
(***************************************************************************)

\* Largest retry budget (glance_num_retries) explored.
MaxRetries == 3

\* FLAGS.glance_api_servers as set by TestGlanceClientWrapper.setUp.
ApiServers == <<"host1:9292", "host2:9293", "host3:9294">>

\* The explicit host:port of the static-client tests.
StaticHost == "host4:9295"

NoHost == "none"

\* None for api_servers.
NoServers == <<>>

PoolIdx == 1..Len(ApiServers)

\* A shuffle is the permutation it applies: result[i] = list[p[i]].
Shuffles == {p \in [PoolIdx -> PoolIdx] : \A i, j \in PoolIdx : p[i] = p[j] => i = j}

\* _fake_shuffle: leaves the list in its order.
FakeShuffle == [i \in PoolIdx |-> i]

\* _fake_shuffle2: servers.append(servers.pop(0)).
FakeShuffle2 == [i \in PoolIdx |-> IF i = Len(ApiServers) THEN 1 ELSE i + 1]

\* What an attempt of the requested operation can do.
Outcomes == {"ok", "conn", "other"}

\* The connection-level failures, the only ones retried.
IsRetryExcAny(o) == o # "ok"

IsRetryExc(o) == o = "conn"

\* The shuffled pool a dynamic wrapper works through.
GetApiServers(sh) == [i \in PoolIdx |-> ApiServers[sh[i]]]

NumAttemptsNoExtra(n) == n

\* total attempts = N + 1
NumAttempts(n) == 1 + n

\* GlanceClientWrapper(context, host, port): a static target when a host is
\* given, otherwise a dynamic one whose order is not selected yet.
\* born and fresh are observations: the shuffle in effect at construction, and
\* whether call() has not run yet.
NewWrapperEager(host, sh) ==
    [kind |-> IF host # NoHost THEN "static" ELSE "dynamic",
     host |-> host,
     client |-> IF host # NoHost THEN host ELSE NoHost,
     api_servers |-> IF host # NoHost THEN NoServers ELSE GetApiServers(sh),
     next |-> 1,
     born |-> sh,
     fresh |-> TRUE]

NewWrapper(host, sh) ==
    [kind |-> IF host # NoHost THEN "static" ELSE "dynamic",
     host |-> host,
     client |-> IF host # NoHost THEN host ELSE NoHost,
     api_servers |-> NoServers,
     next |-> 1,
     born |-> sh,
     fresh |-> TRUE]

EnsureClientNoAdvance(w, sh) ==
    IF w.client # NoHost THEN w
    ELSE LET servers == IF w.api_servers = NoServers THEN GetApiServers(sh)
                        ELSE w.api_servers
             target == servers[w.next]
         IN [w EXCEPT !.api_servers = servers,
                      !.host = target,
                      !.client = target]

\* The client an attempt uses: the existing one, or a new one bound to the
\* next endpoint of the shuffled pool (the order is selected on first need).
EnsureClient(w, sh) ==
    IF w.client # NoHost THEN w
    ELSE LET servers == IF w.api_servers = NoServers THEN GetApiServers(sh)
                        ELSE w.api_servers
             target == servers[w.next]
         IN [w EXCEPT !.api_servers = servers,
                      !.host = target,
                      !.client = target,
                      !.next = (w.next % Len(servers)) + 1]

DropClientAlways(w) == [w EXCEPT !.client = NoHost]

\* A connection failure: a dynamic wrapper gives up its client, so that the
\* next attempt binds to the next endpoint; a static one keeps its target.
DropClient(w) ==
    IF w.kind = "static" THEN w ELSE [w EXCEPT !.client = NoHost]

\* call(context, method, *args): the attempts loop. outcomes[k] is what the
\* k-th attempt of the operation does; log collects the endpoints contacted.
RECURSIVE Attempts(_, _, _, _, _, _)
Attempts(w, sh, attempt, num_attempts, outcomes, log) ==
    IF attempt > num_attempts
    THEN [w |-> w, log |-> log, result |-> "returned"]
    ELSE LET c == EnsureClient(w, sh)
             log2 == Append(log, c.client)
             o == outcomes[attempt]
         IN IF o = "ok"
            THEN [w |-> c, log |-> log2, result |-> "ok"]
            ELSE IF IsRetryExc(o)
            THEN IF attempt = num_attempts
                 THEN [w |-> DropClient(c), log |-> log2,
                       result |-> "ConnectionFailed"]
                 ELSE Attempts(DropClient(c), sh, attempt + 1, num_attempts,
                               outcomes, log2)
            ELSE [w |-> c, log |-> log2, result |-> "error"]

\* What the attempts of one call do: the first `fails` attempts fail with a
\* connection error and the one after them, if it is made, ends as `then`
\* (as _create_failing_glance_client: fail the first time, then succeed).
OutcomesOf(fails, then) ==
    [k \in 1..(MaxRetries + 2) |-> IF k <= fails THEN "conn" ELSE then]

NoCall ==
    [n |-> 0, fails |-> 0, then |-> "ok", log |-> <<>>, result |-> "none",
     first |-> FALSE]


(***************************************************************************)
(*                  PART 2: NetAppISCSIDriver (7-mode)                     *)
(***************************************************************************)

\* The LUN ids the server hands out before the model stops creating.
MaxLunId == 2

\* The edit lock ids DatasetEditBegin may return.
MaxLockId == 2

\* The jobs one DatasetEditCommit may return.
MaxJobs == 1

\* The polls of a job that come before the one reporting its end.
MaxIdlePolls == 1

\* The progress events one poll may obtain, and the polls of one
\* _wait_for_job.
MaxEvents == 2

MaxPolls == 2

\* The polls of a watched job that find neither a job-end nor an error.
MaxSleeps == 2

\* The clone operations the filer runs at a time.
MaxCloneOps == 2

DATASET_PREFIX == "OpenStack_"

\* Strings the code takes apart are sequences of pieces; None and the empty
\* string, which the code does not tell apart (`if not x`), are <<>>.
NoType == <<>>

Names == {"v1", "v2"}

Projects == {<<"a">>, <<"a", "-", "b">>}

\* The volume types the operations are called with: none.
SsTypes == {NoType}

LockIds == 1..MaxLockId

\* DfmDataset and DfmLun; None for each.
DfmDataset(id, name, project, type) ==
    [id |-> id, name |-> name, project |-> project, type |-> type]

NoDataset == DfmDataset(0, <<>>, <<>>, <<>>)

DfmLun(dataset, lunpath, id) ==
    [dataset |-> dataset, lunpath |-> lunpath, id |-> id]

NoLun == DfmLun(NoDataset, <<>>, 0)

\* One remote call as the server sees it: the operation, its numeric
\* argument (dataset id, lock id or job id), its name argument, and whether
\* it returned (ok) or raised.
RemoteCall(op, id, name, ok) == [op |-> op, id |-> id, name |-> name, ok |-> ok]

\* str.replace(' ', '_').replace('-', '_')
Underscored(str) ==
    [i \in 1..Len(str) |-> IF str[i] \in {" ", "-"} THEN "_" ELSE str[i]]

\* _dataset_name
DatasetName(project, ss_type) ==
    LET dataset_name == <<DATASET_PREFIX>> \o Underscored(project)
    IN IF ss_type = NoType THEN dataset_name
       ELSE dataset_name \o <<"_">> \o Underscored(ss_type)

GetDatasetMiss(datasets, dataset_name) == NoDataset

GetDatasetNotFound(datasets, dataset_name) ==
    GetDatasetMiss(datasets, dataset_name)

\* _get_dataset over the list `datasets`
GetDataset(datasets, dataset_name) ==
    IF \E i \in 1..Len(datasets) : datasets[i].name = dataset_name
    THEN LET i == CHOOSE k \in 1..Len(datasets) :
                      /\ datasets[k].name = dataset_name
                      /\ \A m \in 1..(k - 1) : datasets[m].name # dataset_name
         IN datasets[i]
    ELSE NoDataset

\* lunpath.endswith('/' + name), for a name without '/': the path has a
\* piece before its last one, and the last one is the name.
EndsWithName(lunpath, name) ==
    /\ Len(lunpath) >= 2
    /\ lunpath[Len(lunpath)] = name

\* The path under which the server creates the member `name` of a dataset:
\* host:/volume/qtree/lun, volume and qtree being the dataset's.
ServerLunPath(dataset_name, name) == <<"filer:">> \o dataset_name \o <<name>>

(*---------------------------- job progress ------------------------------*)

\* A progress event; one with error status carries the server's message.
Event(type, status, lunpath, lun_id) ==
    [EventType |-> type, EventStatus |-> status,
     LunName |-> lunpath, LunPathId |-> lun_id,
     ErrorMessage |-> IF status = "error" THEN "failed" ELSE ""]

ErrorEvent(type, message) ==
    [Event(type, "error", <<>>, 0) EXCEPT !.ErrorMessage = message]

\* How a provisioning job can go.
JobKinds == {"created", "ended", "error"}

\* The progress events of a job once it reports its end or an error.
FinalEvents(kind, lunpath, lun_id) ==
    IF kind = "created"
    THEN <<Event("job-start", "normal", <<>>, 0),
           Event("lun-create", "normal", lunpath, lun_id),
           Event("job-end", "normal", <<>>, 0)>>
    ELSE IF kind = "ended"
    THEN <<Event("job-start", "normal", <<>>, 0),
           Event("job-end", "normal", <<>>, 0)>>
    ELSE <<Event("job-start", "normal", <<>>, 0),
           Event("job-progress", "error", <<>>, 0)>>

\* The progress events of a job that is still running.
IdleEvents == <<Event("job-start", "normal", <<>>, 0)>>

\* The event lists successive polls of a job obtain.
PollsOf(idle, kind, lunpath, lun_id) ==
    [k \in 1..(idle + 1) |->
        IF k <= idle THEN IdleEvents ELSE FinalEvents(kind, lunpath, lun_id)]

RECURSIVE ScanForErrors(_, _)
ScanForErrors(events, i) ==
    IF i > Len(events) THEN "sleep"
    ELSE IF events[i].EventStatus = "error"
    THEN "Job failed: " \o events[i].ErrorMessage
    ELSE ScanForErrors(events, i + 1)

\* The scan of _wait_for_job over one poll's events: the message to raise
\* at the first event with error status, "return" at the first job-end,
\* whichever comes first in the list; "sleep" when there is neither.
RECURSIVE ScanEvents(_, _)
ScanEvents(events, i) ==
    IF i > Len(events) THEN "sleep"
    ELSE IF events[i].EventStatus = "error"
    THEN "Job failed: " \o events[i].ErrorMessage
    ELSE IF events[i].EventType = "job-end" THEN "return"
    ELSE ScanEvents(events, i + 1)

\* _wait_for_job: poll until a poll's scan raises or returns. polls[k] is
\* what the k-th _get_job_progress obtains; pollFails makes the first one
\* raise. The result: the exception ("" for none), the calls, the events.
RECURSIVE WaitForJob(_, _, _, _, _)
WaitForJob(job_id, polls, k, pollFails, calls) ==
    IF pollFails
    THEN [exc |-> "WebFault: DpJobProgressEventListIter",
          calls |-> Append(calls, RemoteCall("DpJobProgress", job_id, <<>>, FALSE)),
          events |-> <<>>]
    ELSE IF k > Len(polls)
    THEN [exc |-> "never returns", calls |-> calls, events |-> <<>>]
    ELSE LET calls2 == Append(calls, RemoteCall("DpJobProgress", job_id, <<>>, TRUE))
             verdict == ScanEvents(polls[k], 1)
         IN IF verdict = "return"
            THEN [exc |-> "", calls |-> calls2, events |-> polls[k]]
            ELSE IF verdict = "sleep"
            THEN WaitForJob(job_id, polls, k + 1, FALSE, calls2)
            ELSE [exc |-> "NovaException: " \o verdict, calls |-> calls2,
                  events |-> <<>>]

\* The lun-create scan of _provision over one job's events: the last
\* lun-create event's path and id replace the ones found so far.
RECURSIVE LunCreated(_, _, _)
LunCreated(events, i, found) ==
    IF i > Len(events) THEN found
    ELSE IF events[i].EventType # "lun-create"
    THEN LunCreated(events, i + 1, found)
    ELSE LunCreated(events, i + 1,
                    [lunpath |-> events[i].LunName, lun_id |-> events[i].LunPathId])

\* No _wait_for_job observed.
NoJob == [polls |-> <<>>, exc |-> "", calls |-> <<>>, events |-> <<>>]

\* The events the server may report for a job, and the lists of them one
\* poll may obtain.
JobEvents ==
    {Event("job-start", "normal", <<>>, 0),
     Event("lun-create", "normal", <<"filer:", "v1">>, 1),
     Event("job-end", "normal", <<>>, 0),
     ErrorEvent("job-progress", "no space"),
     ErrorEvent("job-end", "aborted")}

EventLists == UNION {[1..n -> JobEvents] : n \in 0..MaxEvents}

\* _wait_for_job(job_id) against a server whose k-th answer is polls[k]; the
\* last answer is the one that ends the wait.
wait_for_job ==
    /\ job = NoJob
    /\ \E job_id \in 1..MaxJobs, n \in 0..MaxPolls, pollFails \in BOOLEAN :
       \E polls \in [1..n -> EventLists] :
       \E r \in {WaitForJob(job_id, polls, 1, pollFails, <<>>)} :
         /\ pollFails <=> n = 0
         /\ r.exc # "never returns"
         /\ Len(r.calls) = n \/ pollFails
         /\ job' = [polls |-> polls, exc |-> r.exc, calls |-> r.calls,
                    events |-> r.events]
         /\ UNCHANGED <<glanceVars, driverVars, filerVars, iter, asideVars>>

\* A _wait_for_job in progress or over, and the job it watches: the event
\* lists its polls obtained so far, the exception it raised, its remote
\* calls, the events it returned, and the job's progress report as the
\* server holds it now.
Watched(polls, exc, calls, events, report) ==
    [polls |-> polls, exc |-> exc, calls |-> calls, events |-> events,
     report |-> report]

\* The wait is over: it raised, or it returned a list (which holds at least
\* the job-end event).
WaitOver == job.exc # "" \/ job.events # <<>>

\* One iteration of the loop of _wait_for_job: _get_job_progress obtains the
\* job's report (or raises), the scan raises, returns, or finds nothing and
\* the thread sleeps.
poll_job ==
    /\ ~WaitOver
    /\ \E pollFails \in BOOLEAN :
       \E r \in {WaitForJob(1, <<job.report>>, 1, pollFails, job.calls)} :
         /\ r.exc = "never returns" => Len(job.polls) < MaxSleeps
         /\ job' = Watched(IF pollFails THEN job.polls
                           ELSE Append(job.polls, job.report),
                           IF r.exc = "never returns" THEN "" ELSE r.exc,
                           r.calls, r.events, job.report)
    /\ UNCHANGED <<glanceVars, driverVars, filerVars, iter, asideVars>>

\* The job on the server adds an event to its progress report.
job_reports ==
    /\ Len(job.report) < MaxEvents
    /\ \E e \in JobEvents :
           job' = [job EXCEPT !.report = Append(@, e)]
    /\ UNCHANGED <<glanceVars, driverVars, filerVars, iter, asideVars>>

(*-------------------------- the DFM server ------------------------------*)

\* The server's record of a dataset: project and type are the values of its
\* OpenStackProject and OpenStackVolType metadata fields (<<>> when absent).
SrvDataset(id, name, project, type) ==
    [id |-> id, name |-> name, project |-> project, type |-> type]

\* The server's record of a LUN that is a member of a dataset.
SrvLun(id, dataset_id, path) == [id |-> id, dataset |-> dataset_id, path |-> path]

\* The elements of a finite set of server records, by ascending id: the
\* order in which the server's iterators return them.
RECURSIVE ById(_)
ById(set) ==
    IF set = {} THEN <<>>
    ELSE LET first == CHOOSE x \in set : \A y \in set : x.id <= y.id
         IN <<first>> \o ById(set \ {first})

(*------------------------- provisioning a LUN ---------------------------*)

\* The remote calls that can be made to fail.
CreateFaults ==
    {{}, {"StorageServiceDatasetProvision"}, {"DatasetEditBegin"},
     {"DatasetProvisionMember"}, {"DatasetEditCommit"},
     {"DatasetProvisionMember", "DatasetEditRollback"},
     {"DatasetEditCommit", "DatasetEditRollback"},
     {"DpJobProgress"}}

DeleteFaults ==
    {{}, {"DatasetEditBegin"}, {"DatasetRemoveMember"}, {"DatasetEditCommit"},
     {"DatasetRemoveMember", "DatasetEditRollback"},
     {"DatasetEditCommit", "DatasetEditRollback"}}

\* _create_dataset: the two flag checks, then StorageServiceDatasetProvision,
\* which the server refuses for a dataset name it already holds. The result:
\* the exception ("" for none), the calls, the new DfmDataset.
CreateDataset(dataset_name, project, ss_type, F) ==
    IF ss_type # NoType /\ storage_service_prefix = ""
    THEN [exc |-> "NovaException: volume_type without netapp_storage_service_prefix",
          calls |-> <<>>, ds |-> NoDataset]
    ELSE IF ~(ss_type # NoType \/ storage_service # "")
    THEN [exc |-> "NovaException: netapp_storage_service not set",
          calls |-> <<>>, ds |-> NoDataset]
    ELSE IF \/ "StorageServiceDatasetProvision" \in F
            \/ \E d \in srvDatasets : d.name = dataset_name
    THEN [exc |-> "WebFault: StorageServiceDatasetProvision",
          calls |-> <<RemoteCall("StorageServiceDatasetProvision", 0,
                                 dataset_name, FALSE)>>,
          ds |-> NoDataset]
    ELSE [exc |-> "",
          calls |-> <<RemoteCall("StorageServiceDatasetProvision", 0,
                                 dataset_name, TRUE)>>,
          ds |-> DfmDataset(nextId.ds, dataset_name, project, ss_type)]

\* The except clause of an edit transaction, reached after `calls`:
\* DatasetEditRollback for the lock, then the NovaException `message`.
\* An exception raised by the rollback call itself leaves the handler in
\* place of the NovaException.
EditFailedNoRollback(calls, lock_id, F, message) ==
    [exc |-> message, calls |-> calls,
     lock |-> lock_id, committed |-> FALSE]

EditFailed(calls, lock_id, F, message) ==
    LET rollback(ok) == RemoteCall("DatasetEditRollback", lock_id, <<>>, ok)
    IN IF "DatasetEditRollback" \in F
       THEN [exc |-> "WebFault: DatasetEditRollback",
             calls |-> Append(calls, rollback(FALSE)),
             lock |-> lock_id, committed |-> FALSE]
       ELSE [exc |-> message,
             calls |-> Append(calls, rollback(TRUE)),
             lock |-> lock_id, committed |-> FALSE]

\* The edit transaction of _provision: DatasetEditBegin, then inside the try
\* DatasetProvisionMember and DatasetEditCommit; the except clause issues
\* DatasetEditRollback and, when that returns, raises NovaException. An
\* exception of the rollback call itself leaves the handler as it is.
ProvisionEdit(dataset, lock_id, F) ==
    LET begin(ok) == RemoteCall("DatasetEditBegin", dataset.id, <<>>, ok)
        member(ok) == RemoteCall("DatasetProvisionMember", lock_id, <<>>, ok)
        commit(ok) == RemoteCall("DatasetEditCommit", lock_id, <<>>, ok)
        handler(calls) ==
            EditFailed(calls, lock_id, F,
                       "NovaException: Failed to provision dataset member")
    IN IF "DatasetEditBegin" \in F
       THEN [exc |-> "WebFault: DatasetEditBegin", calls |-> <<begin(FALSE)>>,
             lock |-> 0, committed |-> FALSE]
       ELSE IF "DatasetProvisionMember" \in F
       THEN handler(<<begin(TRUE), member(FALSE)>>)
       ELSE IF "DatasetEditCommit" \in F
       THEN handler(<<begin(TRUE), member(TRUE), commit(FALSE)>>)
       ELSE [exc |-> "", calls |-> <<begin(TRUE), member(TRUE), commit(TRUE)>>,
             lock |-> lock_id, committed |-> TRUE]

\* The loop of _provision over the jobs the commit returned: wait for each,
\* then scan its events for lun-create. kinds[j] is how job j goes; the job
\* that creates the LUN reports srvLun.
RECURSIVE WaitJobs(_, _, _, _, _, _)
WaitJobs(j, kinds, idle, pollFails, srvLun, acc) ==
    IF j > Len(kinds) THEN acc
    ELSE LET r == WaitForJob(j, PollsOf(idle, kinds[j], srvLun.path, srvLun.id),
                             1, pollFails, acc.calls)
         IN IF r.exc # ""
            THEN [exc |-> r.exc, calls |-> r.calls, found |-> acc.found]
            ELSE WaitJobs(j + 1, kinds, idle, pollFails, srvLun,
                          [exc |-> "", calls |-> r.calls,
                           found |-> LunCreated(r.events, 1, acc.found)])

\* The end of _provision: the new DfmLun is appended to discovered_luns and
\* stored in lun_table under the volume's name.
ForgetLun(lun, name) == [luns |-> discovered_luns, table |-> lun_table]

Remember(lun, name) ==
    [luns |-> Append(discovered_luns, lun),
     table |-> [lun_table EXCEPT ![name] = lun]]

\* A failure path that drops the volume's entry from lun_table.
RaisedAndForgot(name) ==
    [luns |-> discovered_luns, table |-> [lun_table EXCEPT ![name] = NoLun]]

\* The paths of _provision that raise: none has a statement on
\* discovered_luns or lun_table.
Raised(name) == [luns |-> discovered_luns, table |-> lun_table]

LunIdNeverMissing(found) == FALSE

\* `if not lun_id` after the loop over the jobs of _provision
LunIdMissing(found) == found.lun_id = 0

\* _provision once it holds its dataset (`cd` is how _create_dataset went,
\* `datasets` the list discovered_datasets by then): the edit, the jobs,
\* the cache writes. The result: the exception, the calls, the driver's
\* three tables as the call leaves them, the edit lock obtained (0 for
\* none), whether the edit was committed, and the dataset the call created
\* on the server (NoDataset for none).
ProvisionMember(name, dataset, cd, datasets, F, lock_id, kinds, idle) ==
    LET stop(exc, calls, lock, committed) ==
            [exc |-> exc, calls |-> calls, datasets |-> datasets,
             luns |-> Raised(name).luns, table |-> Raised(name).table,
             lock |-> lock, committed |-> committed, created |-> cd.ds]
    IN IF cd.exc # ""
       THEN stop(cd.exc, cd.calls, 0, FALSE)
       ELSE LET ed == ProvisionEdit(dataset, lock_id, F)
            IN IF ed.exc # ""
               THEN stop(ed.exc, cd.calls \o ed.calls, ed.lock, FALSE)
               ELSE LET srvLun == SrvLun(nextId.lun, dataset.id,
                                         ServerLunPath(dataset.name, name))
                        jobs == WaitJobs(1, kinds, idle, "DpJobProgress" \in F,
                                         srvLun,
                                         [exc |-> "",
                                          calls |-> cd.calls \o ed.calls,
                                          found |-> [lunpath |-> <<>>,
                                                     lun_id |-> 0]])
                    IN IF jobs.exc # ""
                       THEN stop(jobs.exc, jobs.calls, ed.lock, TRUE)
                       ELSE IF LunIdMissing(jobs.found)
                       THEN stop("NovaException: No LUN was created by the provision job",
                                 jobs.calls, ed.lock, TRUE)
                       ELSE LET lun == DfmLun(dataset, jobs.found.lunpath,
                                              jobs.found.lun_id)
                            IN [exc |-> "", calls |-> jobs.calls,
                                datasets |-> datasets,
                                luns |-> Remember(lun, name).luns,
                                table |-> Remember(lun, name).table,
                                lock |-> ed.lock, committed |-> TRUE,
                                created |-> cd.ds]

\* _provision from its first line: the dataset is the one _get_dataset
\* finds in discovered_datasets or else the one _create_dataset makes and
\* appends to it.
Provision(name, project, ss_type, F, lock_id, kinds, idle) ==
    LET dataset_name == DatasetName(project, ss_type)
        cached == GetDataset(discovered_datasets, dataset_name)
        cd == IF cached = NoDataset
              THEN CreateDataset(dataset_name, project, ss_type, F)
              ELSE [exc |-> "", calls |-> <<>>, ds |-> NoDataset]
        dataset == IF cached = NoDataset THEN cd.ds ELSE cached
        datasets == IF cd.ds = NoDataset THEN discovered_datasets
                    ELSE Append(discovered_datasets, cd.ds)
    IN ProvisionMember(name, dataset, cd, datasets, F, lock_id, kinds, idle)

\* What an operation leaves in `last`: its name and arguments, the exception
\* it raised ("" for none), the remote calls it made, the edit lock it
\* obtained (0 for none), the Lun it looked up. For create_volume also:
\* whether the dataset was in discovered_datasets when it started, the
\* number of polls each job took to report its end, how each job went, and
\* the path and id in the lun-create event. For a lookup also: the number of passes over
\* discovered_luns.
Done(op, name, project, ss_type, exc, calls, lock, ret) ==
    [op |-> op, name |-> name, project |-> project, ss_type |-> ss_type,
     exc |-> exc, calls |-> calls, lock |-> lock, ret |-> ret,
     cached |-> FALSE, polls |-> <<>>, event |-> [lunpath |-> <<>>, lun_id |-> 0],
     scanned |-> 0, kinds |-> <<>>]

NoOp == Done("none", "", <<>>, NoType, "", <<>>, 0, NoLun)

\* create_volume(volume): name, project_id and the volume type's name are
\* what reaches _provision and decides its course. The server side: a
\* committed edit starts the jobs, and the job that goes "created" adds the
\* LUN to the dataset. The volume name is one of `names`, the volume type
\* one of `types`, the failing remote calls one of `faults`.
CreateVolumeFor(names, projects, types, faults) ==
    /\ \E name \in names, project \in projects, ss_type \in types,
       F \in faults, lock_id \in LockIds, njobs \in 1..MaxJobs,
       idle \in 0..MaxIdlePolls :
      \E kinds \in [1..njobs -> JobKinds] :
      \E r \in {Provision(name, project, ss_type, F, lock_id, kinds, idle)} :
        LET cached == GetDataset(discovered_datasets,
                                 DatasetName(project, ss_type)) # NoDataset
            made == r.committed /\ \E j \in 1..njobs : kinds[j] = "created"
            dataset == GetDataset(r.datasets, DatasetName(project, ss_type))
            srvLun == SrvLun(nextId.lun, dataset.id,
                             ServerLunPath(dataset.name, name))
        IN \* one member request creates at most one LUN, under a free path
           /\ Cardinality({j \in 1..njobs : kinds[j] = "created"}) <= 1
           /\ made => /\ nextId.lun <= MaxLunId
                      /\ \A l \in srvLuns : l.path # srvLun.path
           \* inputs that are never read take one value
           /\ r.lock = 0 => lock_id = 1
           /\ ~r.committed =>
                  /\ njobs = 1 /\ idle = 0
                  /\ \A j \in 1..njobs : kinds[j] = "ended"
           /\ discovered_datasets' = r.datasets
           /\ discovered_luns' = r.luns
           /\ lun_table' = r.table
           /\ srvDatasets' =
                  IF r.created = NoDataset THEN srvDatasets
                  ELSE srvDatasets \cup
                       {SrvDataset(r.created.id, r.created.name,
                                   r.created.project, r.created.type)}
           /\ srvLuns' = IF made THEN srvLuns \cup {srvLun} ELSE srvLuns
           /\ nextId' = [ds |-> IF r.created = NoDataset THEN nextId.ds
                                ELSE nextId.ds + 1,
                         lun |-> IF made THEN nextId.lun + 1 ELSE nextId.lun]
           /\ last' = [Done("create_volume", name, project, ss_type, r.exc,
                            r.calls, r.lock, NoLun)
                          EXCEPT !.cached = cached,
                                 !.polls = IF r.committed
                                           THEN [j \in 1..njobs |-> idle + 1]
                                           ELSE <<>>,
                                 !.kinds = IF r.committed THEN kinds
                                           ELSE <<>>,
                                 !.event = IF made
                                           THEN [lunpath |-> srvLun.path,
                                                 lun_id |-> srvLun.id]
                                           ELSE @]
           /\ UNCHANGED <<storage_service, storage_service_prefix, destroyed,
                          looked>>
           /\ UNCHANGED outsideDriver

CreateVolume(names, types, faults) ==
    CreateVolumeFor(names, Projects, types, faults)

\* create_volume for a volume without a volume type
create_volume ==
    /\ last = NoOp
    /\ CreateVolume(Names, SsTypes, CreateFaults)

\* create_volume for the volume "v1", without a volume type or of the
\* volume type "gold"
create_volume_of_type ==
    /\ last = NoOp
    /\ CreateVolume({"v1"}, {NoType, <<"gold">>},
                    {{}, {"StorageServiceDatasetProvision"},
                     {"DatasetEditBegin"}})

\* create_volume for the volume "v1", with or without volume type, once
\* do_setup has made the client
create_volume_after_setup ==
    /\ last = NoOp
    /\ client # ""
    /\ CreateVolume({"v1"}, {NoType, <<"gold">>},
                    {{}, {"StorageServiceDatasetProvision"}})

\* create_volume for the volume "v1" of the project "a" or "a-b", without
\* a volume type or of the volume type "b"
create_volume_of_tenant ==
    /\ last = NoOp
    /\ CreateVolumeFor({"v1"}, {<<"a">>, <<"a", "-", "b">>},
                       {NoType, <<"b">>}, {{}, {"DatasetEditBegin"}})

(*-------------------------------- setup ---------------------------------*)

\* The flags do_setup reads; "" is a flag that is not set.
RequiredFlags ==
    <<"netapp_wsdl_url", "netapp_login", "netapp_password",
      "netapp_server_hostname", "netapp_server_port">>

OptionalFlags ==
    {"netapp_storage_service", "netapp_storage_service_prefix",
     "netapp_vfiler"}

FlagValue(flag) ==
    CASE flag = "netapp_wsdl_url" -> "http://dfm/dfm.wsdl"
      [] flag = "netapp_login" -> "admin"
      [] flag = "netapp_password" -> "secret"
      [] flag = "netapp_server_hostname" -> "dfm"
      [] flag = "netapp_server_port" -> "8088"
      [] flag = "netapp_storage_service" -> "service"
      [] flag = "netapp_storage_service_prefix" -> "prefix_"
      [] flag = "netapp_vfiler" -> "vf1"

FlagNames == {RequiredFlags[i] : i \in 1..Len(RequiredFlags)} \cup OptionalFlags

CheckRequiredFlags(FLAGS) ==
    IF \E i \in 1..Len(RequiredFlags) : FLAGS[RequiredFlags[i]] = ""
    THEN LET i == CHOOSE k \in 1..Len(RequiredFlags) :
                      /\ FLAGS[RequiredFlags[k]] = ""
                      /\ \A m \in 1..(k - 1) : FLAGS[RequiredFlags[m]] # ""
         IN "NovaException: " \o RequiredFlags[i] \o " is not set"
    ELSE ""

\* A check of the five required flags alone.
CheckFlagsRequiredOnly(FLAGS) == CheckRequiredFlags(FLAGS)

\* _check_flags: the exception it raises, "" for none.
CheckFlags(FLAGS) ==
    IF CheckRequiredFlags(FLAGS) # "" THEN CheckRequiredFlags(FLAGS)
    ELSE IF ~(\/ FLAGS["netapp_storage_service"] # ""
              \/ FLAGS["netapp_storage_service_prefix"] # "")
    THEN "NovaException: Either netapp_storage_service or netapp_storage_service_prefix must be set"
    ELSE ""

\* do_setup: _check_flags, then _create_client, which loads the WSDL and may
\* raise, then the three setters. The result: the exception, the remote
\* accesses, and the four attributes as the call leaves them.
DoSetup(FLAGS, clientFails) ==
    LET load(ok) == RemoteCall("Client", 0, <<FLAGS["netapp_wsdl_url"]>>, ok)
        unset(exc, calls) ==
            [exc |-> exc, calls |-> calls, client |-> client,
             storage_service |-> storage_service,
             storage_service_prefix |-> storage_service_prefix,
             vfiler |-> vfiler]
    IN IF CheckFlags(FLAGS) # "" THEN unset(CheckFlags(FLAGS), <<>>)
       ELSE IF clientFails
       THEN unset("Exception: suds client", <<load(FALSE)>>)
       ELSE [exc |-> "", calls |-> <<load(TRUE)>>,
             client |-> "http://" \o FLAGS["netapp_server_hostname"] \o ":"
                            \o FLAGS["netapp_server_port"] \o "/apis/soap/v1",
             storage_service |-> FLAGS["netapp_storage_service"],
             storage_service_prefix |-> FLAGS["netapp_storage_service_prefix"],
             vfiler |-> FLAGS["netapp_vfiler"]]

\* do_setup(context), called by the manager after the driver is loaded, with
\* the flags as they are set then.
do_setup ==
    /\ last = NoOp
    /\ client = ""
    /\ \E unset \in SUBSET FlagNames, clientFails \in BOOLEAN :
       \E FLAGS \in {[f \in FlagNames |->
                          IF f \in unset THEN "" ELSE FlagValue(f)]} :
       \E r \in {DoSetup(FLAGS, clientFails)} :
         /\ clientFails => CheckFlags(FLAGS) = ""
         /\ client' = r.client
         /\ storage_service' = r.storage_service
         /\ storage_service_prefix' = r.storage_service_prefix
         /\ vfiler' = r.vfiler
         /\ last' = Done("do_setup", "", <<>>, NoType, r.exc, r.calls, 0, NoLun)
                        @@ [flags |-> FLAGS]
         /\ UNCHANGED <<discovered_luns, discovered_datasets, lun_table,
                        srvDatasets, srvLuns, nextId, destroyed, looked>>
         /\ UNCHANGED <<glanceVars, filerVars, iter, job, clone, codec, cm,
                        callers>>

(*------------------------- lookup and deletion --------------------------*)

LookupWithoutStoring(name, project) ==
    LET matches(i) ==
            /\ discovered_luns[i].dataset.project = project
            /\ EndsWithName(discovered_luns[i].lunpath, name)
    IN IF lun_table[name] # NoLun
       THEN [exc |-> "", lun |-> lun_table[name], table |-> lun_table,
             scanned |-> 0]
       ELSE IF \E i \in 1..Len(discovered_luns) : matches(i)
       THEN [exc |-> "",
             lun |-> discovered_luns[CHOOSE k \in 1..Len(discovered_luns) :
                                        /\ matches(k)
                                        /\ \A m \in 1..(k - 1) : ~matches(m)],
             table |-> lun_table, scanned |-> 1]
       ELSE [exc |-> "NovaException: No entry in LUN table for volume",
             lun |-> NoLun, table |-> lun_table, scanned |-> 1]

\* _lookup_lun_for_volume: lun_table first; on a miss the scan of
\* discovered_luns for the first LUN of the project whose path ends with
\* '/' + name, which is then stored in lun_table. The result: the exception,
\* the Lun returned, lun_table as the call leaves it, the number of passes
\* over discovered_luns.
LookupLunForVolume(name, project) ==
    LET matches(i) ==
            /\ discovered_luns[i].dataset.project = project
            /\ EndsWithName(discovered_luns[i].lunpath, name)
    IN IF lun_table[name] # NoLun
       THEN [exc |-> "", lun |-> lun_table[name], table |-> lun_table,
             scanned |-> 0]
       ELSE IF \E i \in 1..Len(discovered_luns) : matches(i)
       THEN LET i == CHOOSE k \in 1..Len(discovered_luns) :
                         /\ matches(k)
                         /\ \A m \in 1..(k - 1) : ~matches(m)
                lun == discovered_luns[i]
            IN [exc |-> "", lun |-> lun,
                table |-> [lun_table EXCEPT ![name] = lun], scanned |-> 1]
       ELSE [exc |-> "NovaException: No entry in LUN table for volume",
             lun |-> NoLun, table |-> lun_table, scanned |-> 1]

\* ensure_export / create_export -> _get_export: the lookup, whose Lun's id
\* becomes provider_location.
ensure_export ==
    /\ last = NoOp
    /\ \E name \in Names, project \in Projects :
      \E r \in {LookupLunForVolume(name, project)} :
           /\ lun_table' = r.table
           /\ last' = [Done("ensure_export", name, project, NoType, r.exc,
                            <<>>, 0, r.lun) EXCEPT !.scanned = r.scanned]
           /\ UNCHANGED <<discovered_luns, discovered_datasets,
                          storage_service, storage_service_prefix,
                          srvDatasets, srvLuns, nextId, destroyed, looked>>
           /\ UNCHANGED outsideDriver

\* create_export -> _get_export: the same lookup. For this entry point the
\* model keeps the history of the lookups that filled lun_table by a scan.
create_export ==
    /\ last = NoOp
    /\ \E name \in Names, project \in Projects :
      \E r \in {LookupLunForVolume(name, project)} :
           /\ lun_table' = r.table
           /\ last' = [Done("create_export", name, project, NoType, r.exc,
                            <<>>, 0, r.lun) EXCEPT !.scanned = r.scanned]
           /\ looked' = IF r.exc = "" /\ r.scanned > 0
                        THEN [looked EXCEPT ![name] = r.lun]
                        ELSE looked
           /\ UNCHANGED <<discovered_luns, discovered_datasets,
                          storage_service, storage_service_prefix,
                          srvDatasets, srvLuns, nextId, destroyed>>
           /\ UNCHANGED outsideDriver

\* DatasetRemoveMember(EditLockId, Destroy=True, DatasetMemberParameters):
\* a remote call that also names the member to remove.
RemoveMemberCall(lock_id, member_id, ok) ==
    [op |-> "DatasetRemoveMember", id |-> lock_id, name |-> <<>>, ok |-> ok,
     member |-> member_id, destroy |-> TRUE]

RemoveEditUnordered(lun, lock_id, F) ==
    [exc |-> "",
     calls |-> <<RemoveMemberCall(lock_id, lun.id, TRUE),
                 RemoteCall("DatasetEditBegin", lun.dataset.id, <<>>, TRUE),
                 RemoteCall("DatasetEditCommit", lock_id, <<>>, TRUE)>>,
     lock |-> lock_id, committed |-> TRUE]

\* The edit transaction of _remove_destroy, of the same shape as the one of
\* _provision. The server refuses DatasetRemoveMember for a LUN it does not
\* hold (any more).
RemoveEdit(lun, lock_id, F) ==
    LET begin(ok) == RemoteCall("DatasetEditBegin", lun.dataset.id, <<>>, ok)
        member(ok) == RemoveMemberCall(lock_id, lun.id, ok)
        commit(ok) == RemoteCall("DatasetEditCommit", lock_id, <<>>, ok)
        handler(calls) ==
            EditFailed(calls, lock_id, F,
                       "NovaException: Failed to remove and delete dataset member")
    IN IF "DatasetEditBegin" \in F
       THEN [exc |-> "WebFault: DatasetEditBegin", calls |-> <<begin(FALSE)>>,
             lock |-> 0, committed |-> FALSE]
       ELSE IF \/ "DatasetRemoveMember" \in F
               \/ \A l \in srvLuns : l.id # lun.id
       THEN handler(<<begin(TRUE), member(FALSE)>>)
       ELSE IF "DatasetEditCommit" \in F
       THEN handler(<<begin(TRUE), member(TRUE), commit(FALSE)>>)
       ELSE [exc |-> "", calls |-> <<begin(TRUE), member(TRUE), commit(TRUE)>>,
             lock |-> lock_id, committed |-> TRUE]

\* _remove_destroy: the lookup, then the edit transaction. Nothing else: the
\* driver's tables are written by the lookup only.
RemoveDestroy(name, project, F, lock_id) ==
    LET found == LookupLunForVolume(name, project)
    IN IF found.exc # ""
       THEN [exc |-> found.exc, calls |-> <<>>, table |-> found.table,
             lock |-> 0, committed |-> FALSE, lun |-> NoLun]
       ELSE LET ed == RemoveEdit(found.lun, lock_id, F)
            IN [exc |-> ed.exc, calls |-> ed.calls, table |-> found.table,
                lock |-> ed.lock, committed |-> ed.committed,
                lun |-> found.lun]

\* delete_volume(volume). The server side: the committed removal destroys
\* the LUN.
delete_volume ==
    /\ last = NoOp
    /\ \E name \in Names, project \in Projects, F \in DeleteFaults,
       lock_id \in LockIds :
      \E r \in {RemoveDestroy(name, project, F, lock_id)} :
           /\ r.lock = 0 => (lock_id = 1 /\ (r.calls = <<>> => F = {}))
           /\ lun_table' = r.table
           /\ srvLuns' = IF r.committed
                         THEN {l \in srvLuns : l.id # r.lun.id}
                         ELSE srvLuns
           /\ destroyed' = IF r.committed
                           THEN destroyed \cup {[id |-> r.lun.id, name |-> name,
                                                 project |-> project]}
                           ELSE destroyed
           /\ last' = Done("delete_volume", name, project, NoType, r.exc,
                           r.calls, r.lock, r.lun)
           /\ UNCHANGED <<discovered_luns, discovered_datasets,
                          storage_service, storage_service_prefix,
                          srvDatasets, nextId, looked>>
           /\ UNCHANGED outsideDriver

(*------------------------------ discovery -------------------------------*)

RECURSIVE OwnDatasetsByPrefix(_)
OwnDatasetsByPrefix(listed) ==
    IF listed = <<>> THEN <<>>
    ELSE LET d == Head(listed)
         IN IF d.name # <<>> /\ d.name[1] = DATASET_PREFIX
            THEN <<DfmDataset(d.id, d.name, d.project, d.type)>>
                 \o OwnDatasetsByPrefix(Tail(listed))
            ELSE OwnDatasetsByPrefix(Tail(listed))

\* The datasets of the server _discover_luns keeps, in the order it meets
\* them: the name starts with the prefix and the project field has a value.
RECURSIVE OwnDatasets(_)
OwnDatasets(listed) ==
    IF listed = <<>> THEN <<>>
    ELSE LET d == Head(listed)
         IN IF d.name # <<>> /\ d.name[1] = DATASET_PREFIX /\ d.project # <<>>
            THEN <<DfmDataset(d.id, d.name, d.project, d.type)>>
                 \o OwnDatasets(Tail(listed))
            ELSE OwnDatasets(Tail(listed))

\* _discover_dataset_luns(dataset, None): a DfmLun for every member the
\* server lists for the dataset.
DatasetLuns(ds) ==
    LET members == ById({l \in srvLuns : l.dataset = ds.id})
    IN [i \in 1..Len(members) |-> DfmLun(ds, members[i].path, members[i].id)]

RECURSIVE LunsAfterOld(_, _)
LunsAfterOld(own, k) ==
    IF k = 0 THEN discovered_luns
    ELSE LunsAfterOld(own, k - 1) \o DatasetLuns(own[k])

\* The LUNs of the first k datasets of `own`.
RECURSIVE LunsOfFirst(_, _)
LunsOfFirst(own, k) ==
    IF k = 0 THEN <<>>
    ELSE LunsOfFirst(own, k - 1) \o DatasetLuns(own[k])

EmptyLunTable == [n \in Names |-> NoLun]

\* _discover_luns. failAt = -1: _get_datasets raises, before anything is
\* written. failAt = k > 0: the member enumeration of the k-th kept dataset
\* raises, before its first member (late = FALSE) or after its last one
\* (late = TRUE); both lists were emptied and refilled up to there and
\* lun_table was not reached. failAt = 0: the pass completes.
DiscoverLuns(failAt, late) ==
    LET own == OwnDatasets(ById(srvDatasets))
        list(ok) == RemoteCall("DatasetListInfoIter", 0, <<>>, ok)
        members(k, ok) == RemoteCall("DatasetMemberListInfoIter", own[k].id,
                                     <<>>, ok)
    IN IF failAt = -1
       THEN [exc |-> "WebFault: DatasetListInfoIter", calls |-> <<list(FALSE)>>,
             datasets |-> discovered_datasets, luns |-> discovered_luns,
             table |-> lun_table]
       ELSE IF failAt = 0
       THEN [exc |-> "",
             calls |-> <<list(TRUE)>>
                       \o [k \in 1..Len(own) |-> members(k, TRUE)],
             datasets |-> own, luns |-> LunsOfFirst(own, Len(own)),
             table |-> EmptyLunTable]
       ELSE [exc |-> "WebFault: DatasetMemberListInfoIter",
             calls |-> <<list(TRUE)>>
                       \o [k \in 1..failAt |-> members(k, k < failAt)],
             datasets |-> SubSeq(own, 1, failAt),
             luns |-> LunsOfFirst(own, IF late THEN failAt ELSE failAt - 1),
             table |-> lun_table]

\* check_for_setup_error -> _discover_luns
discover_luns ==
    /\ last = NoOp
    /\ \E failAt \in -1..Cardinality(srvDatasets), late \in BOOLEAN :
      /\ failAt <= Len(OwnDatasets(ById(srvDatasets)))
      /\ failAt <= 0 => ~late
      /\ \E r \in {DiscoverLuns(failAt, late)} :
           /\ discovered_datasets' = r.datasets
           /\ discovered_luns' = r.luns
           /\ lun_table' = r.table
           /\ last' = Done("discover_luns", "", <<>>, NoType, r.exc, r.calls,
                           0, NoLun)
           /\ UNCHANGED <<storage_service, storage_service_prefix,
                          srvDatasets, srvLuns, nextId, destroyed, looked>>
           /\ UNCHANGED outsideDriver

\* The caller (the volume manager) takes the outcome of the operation; the
\* driver is idle again.
Return ==
    /\ last # NoOp
    /\ last' = NoOp
    /\ UNCHANGED <<discovered_luns, discovered_datasets, lun_table,
                   storage_service, storage_service_prefix,
                   srvDatasets, srvLuns, nextId, destroyed, looked>>
    /\ UNCHANGED outsideDriver

(***************************************************************************)
(*                    PART 3: LUN masking on the filer                     *)
(***************************************************************************)

IGROUP_PREFIX == "openstack-"

Initiators == {"iqn1", "iqn2"}

\* LUN paths as _get_lun_details reports them (LunPath, without '/vol/').
LunPaths == {"p1", "p2"}

\* An initiator group as igroup-list-info reports it. Names are sequences
\* of pieces, the first being the prefix when there is one.
Igroup(name, type, os, initiators) ==
    [name |-> name, type |-> type, os |-> os, initiators |-> initiators]

NoIgroup == <<>>

\* Igroups the filer may hold that are not the driver's: one without the
\* prefix, one with the prefix but of another os type. Both hold iqn1.
ManualIgroup == Igroup(<<"manual-", "iqn1">>, "iscsi", "linux", {"iqn1"})

WindowsIgroup == Igroup(<<IGROUP_PREFIX, "win">>, "iscsi", "windows", {"iqn1"})

\* A LUN-to-igroup mapping as lun-map-list-info reports it for a path.
LunMap(igroup_name, lunpath, lun_num) ==
    [igroup |-> igroup_name, path |-> lunpath, lun_num |-> lun_num]

\* One ApiProxy request: its Name, the igroup and path it names (<<>> for
\* none), and whether _check_fail let it pass.
ProxyCall(request, igroup_name, lunpath, ok) ==
    [request |-> request, igroup |-> igroup_name, path |-> lunpath, ok |-> ok]

\* The proxy requests of the mapping functions, each of which can fail.
MapRequests ==
    {"igroup-list-info", "igroup-create", "igroup-add", "lun-map-list-info",
     "lun-map", "lun-unmap"}

\* '/vol/' + lunpath
VolPath(lunpath) == <<"/vol/", lunpath>>

FindIgroupAnyPrefix(listed, initiator_name) ==
    LET matches(i) ==
            /\ listed[i].type = "iscsi" /\ listed[i].os = "linux"
            /\ initiator_name \in listed[i].initiators
    IN IF \E i \in 1..Len(listed) : matches(i)
       THEN listed[CHOOSE k \in 1..Len(listed) :
                       matches(k) /\ \A m \in 1..(k - 1) : ~matches(m)].name
       ELSE NoIgroup

\* The loop of _find_igroup_for_initiator over the listed igroups: the name
\* of the first iscsi/linux igroup with the prefix that holds the
\* initiator; NoIgroup (None) when there is none.
FindIgroupByName(listed, initiator_name) ==
    <<IGROUP_PREFIX, initiator_name>>

FindIgroupForInitiator(listed, initiator_name) ==
    LET matches(i) ==
            /\ listed[i].type = "iscsi" /\ listed[i].os = "linux"
            /\ listed[i].name # <<>> /\ listed[i].name[1] = IGROUP_PREFIX
            /\ initiator_name \in listed[i].initiators
    IN IF \E i \in 1..Len(listed) : matches(i)
       THEN listed[CHOOSE k \in 1..Len(listed) :
                       matches(k) /\ \A m \in 1..(k - 1) : ~matches(m)].name
       ELSE NoIgroup

\* _create_igroup against the filer holding `listed`: igroup-create, which
\* the filer rejects for a name it holds, then igroup-add. The result: the
\* exception, the calls, the igroup's name, the filer's igroups afterwards.
CreateIgroup(listed, initiator_name, fail) ==
    LET igroup_name == <<IGROUP_PREFIX, initiator_name>>
        create(ok) == ProxyCall("igroup-create", igroup_name, <<>>, ok)
        add(ok) == ProxyCall("igroup-add", igroup_name, <<>>, ok)
        created == Append(listed, Igroup(igroup_name, "iscsi", "linux", {}))
    IN IF \/ fail = "igroup-create"
          \/ \E i \in 1..Len(listed) : listed[i].name = igroup_name
       THEN [exc |-> "NovaException: igroup-create", calls |-> <<create(FALSE)>>,
             igroup |-> NoIgroup, igroups |-> listed]
       ELSE IF fail = "igroup-add"
       THEN [exc |-> "NovaException: igroup-add",
             calls |-> <<create(TRUE), add(FALSE)>>,
             igroup |-> NoIgroup, igroups |-> created]
       ELSE [exc |-> "", calls |-> <<create(TRUE), add(TRUE)>>,
             igroup |-> igroup_name,
             igroups |-> [created EXCEPT ![Len(created)].initiators =
                                             {initiator_name}]]


\* _get_lun_mappping: whether the filer lists the igroup among those the
\* path is mapped to, and under which LUN number.
GetLunMappingUnmapped(maps, lunpath, igroup_name) ==
    [mapped |-> FALSE, lun_num |-> -1]

GetLunMapping(maps, lunpath, igroup_name) ==
    IF \E m \in maps : m.path = lunpath /\ m.igroup = igroup_name
    THEN [mapped |-> TRUE,
          lun_num |-> (CHOOSE m \in maps :
                           m.path = lunpath /\ m.igroup = igroup_name).lun_num]
    ELSE [mapped |-> FALSE, lun_num |-> -1]

\* What lun-map does on the filer: the mapping gets the lowest LUN number
\* the igroup does not use yet ('lun-id-assigned').
MapInitiator(maps, lunpath, igroup_name) ==
    LET used == {m.lun_num : m \in {x \in maps : x.igroup = igroup_name}}
        lun_num == CHOOSE n \in 0..Cardinality(used) :
                       n \notin used /\ \A k \in 0..(n - 1) : k \in used
    IN [lun_num |-> lun_num,
        maps |-> maps \cup {LunMap(igroup_name, lunpath, lun_num)}]

\* What lun-unmap does on the filer: the mapping goes, the igroups stay.
UnmapAndDestroyIgroup(listed, maps, lunpath, igroup_name) ==
    [igroups |-> SelectSeq(listed, LAMBDA g : g.name # igroup_name),
     maps |-> {m \in maps : ~(m.path = lunpath /\ m.igroup = igroup_name)}]

UnmapInitiator(listed, maps, lunpath, igroup_name) ==
    [igroups |-> listed,
     maps |-> {m \in maps : ~(m.path = lunpath /\ m.igroup = igroup_name)}]

\* The outcome of a mapping function: exception, calls, LUN number returned
\* (-1 for none), the filer's igroups and mappings afterwards.
Masked(exc, calls, ret, listed, maps) ==
    [exc |-> exc, calls |-> calls, ret |-> ret, igroups |-> listed,
     maps |-> maps]

\* _ensure_initiator_mapped(host_id, lunpath, initiator_name) against the
\* filer in its current state; `fail` is the request that fails ("none").
EnsureInitiatorMapped(lunpath, initiator_name, fail) ==
    LET path == VolPath(lunpath)
        list(ok) == ProxyCall("igroup-list-info", <<>>, <<>>, ok)
        found == FindIgroupForInitiator(igroups, initiator_name)
        cr == IF found = NoIgroup
              THEN CreateIgroup(igroups, initiator_name, fail)
              ELSE [exc |-> "", calls |-> <<>>, igroup |-> found,
                    igroups |-> igroups]
        calls1 == <<list(TRUE)>> \o cr.calls
        query(ok) == ProxyCall("lun-map-list-info", <<>>, path, ok)
        map(ok) == ProxyCall("lun-map", cr.igroup, path, ok)
        mapping == GetLunMapping(lunMaps, path, cr.igroup)
        new == MapInitiator(lunMaps, path, cr.igroup)
    IN IF fail = "igroup-list-info"
       THEN Masked("NovaException: igroup-list-info", <<list(FALSE)>>, -1,
                   igroups, lunMaps)
       ELSE IF cr.exc # ""
       THEN Masked(cr.exc, calls1, -1, cr.igroups, lunMaps)
       ELSE IF fail = "lun-map-list-info"
       THEN Masked("NovaException: lun-map-list-info",
                   Append(calls1, query(FALSE)), -1, cr.igroups, lunMaps)
       ELSE IF mapping.mapped
       THEN Masked("", Append(calls1, query(TRUE)), mapping.lun_num,
                   cr.igroups, lunMaps)
       ELSE IF \/ fail = "lun-map"
               \/ \E m \in lunMaps : m.path = path /\ m.igroup = cr.igroup
       THEN Masked("NovaException: lun-map",
                   calls1 \o <<query(TRUE), map(FALSE)>>, -1,
                   cr.igroups, lunMaps)
       ELSE Masked("", calls1 \o <<query(TRUE), map(TRUE)>>, new.lun_num,
                   cr.igroups, new.maps)

\* _ensure_initiator_unmapped(host_id, lunpath, initiator_name)
EnsureInitiatorUnmapped(lunpath, initiator_name, fail) ==
    LET path == VolPath(lunpath)
        list(ok) == ProxyCall("igroup-list-info", <<>>, <<>>, ok)
        igroup_name == FindIgroupForInitiator(igroups, initiator_name)
        query(ok) == ProxyCall("lun-map-list-info", <<>>, path, ok)
        unmap(ok) == ProxyCall("lun-unmap", igroup_name, path, ok)
        mapping == GetLunMapping(lunMaps, path, igroup_name)
        gone == UnmapInitiator(igroups, lunMaps, path, igroup_name)
    IN IF fail = "igroup-list-info"
       THEN Masked("NovaException: igroup-list-info", <<list(FALSE)>>, -1,
                   igroups, lunMaps)
       ELSE IF igroup_name = NoIgroup
       THEN Masked("", <<list(TRUE)>>, -1, igroups, lunMaps)
       ELSE IF fail = "lun-map-list-info"
       THEN Masked("NovaException: lun-map-list-info",
                   <<list(TRUE), query(FALSE)>>, -1, igroups, lunMaps)
       ELSE IF ~mapping.mapped
       THEN Masked("", <<list(TRUE), query(TRUE)>>, -1, igroups, lunMaps)
       ELSE IF fail = "lun-unmap"
       THEN Masked("NovaException: lun-unmap",
                   <<list(TRUE), query(TRUE), unmap(FALSE)>>, -1,
                   igroups, lunMaps)
       ELSE Masked("", <<list(TRUE), query(TRUE), unmap(TRUE)>>, -1,
                   gone.igroups, gone.maps)

\* What a mapping function leaves in `last`: its name and arguments, the
\* exception, the calls, the LUN number returned.
DoneMasking(op, lunpath, initiator_name, r) ==
    [op |-> op, lunpath |-> lunpath, initiator |-> initiator_name,
     exc |-> r.exc, calls |-> r.calls, ret |-> r.ret]

\* initialize_connection -> _ensure_initiator_mapped, for the LUN path
\* _get_lun_details returned and the connector's initiator.
ensure_initiator_mapped ==
    /\ last = NoOp
    /\ \E lunpath \in LunPaths, initiator_name \in Initiators,
          fail \in MapRequests \cup {"none"} :
         \E r \in {EnsureInitiatorMapped(lunpath, initiator_name, fail)} :
           \* a failing request is one the call makes
           /\ fail # "none" =>
                  \E i \in 1..Len(r.calls) :
                      r.calls[i].request = fail /\ ~r.calls[i].ok
           /\ igroups' = r.igroups
           /\ lunMaps' = r.maps
           /\ last' = DoneMasking("ensure_initiator_mapped", lunpath,
                                  initiator_name, r)
           /\ UNCHANGED <<discovered_luns, discovered_datasets, lun_table,
                          storage_service, storage_service_prefix,
                          srvDatasets, srvLuns, nextId, destroyed, looked>>
           /\ UNCHANGED outsideFiler

\* terminate_connection -> _ensure_initiator_unmapped
ensure_initiator_unmapped ==
    /\ last = NoOp
    /\ \E lunpath \in LunPaths, initiator_name \in Initiators,
          fail \in MapRequests \cup {"none"} :
         \E r \in {EnsureInitiatorUnmapped(lunpath, initiator_name, fail)} :
           /\ fail # "none" =>
                  \E i \in 1..Len(r.calls) :
                      r.calls[i].request = fail /\ ~r.calls[i].ok
           /\ igroups' = r.igroups
           /\ lunMaps' = r.maps
           /\ last' = DoneMasking("ensure_initiator_unmapped", lunpath,
                                  initiator_name, r)
           /\ UNCHANGED <<discovered_luns, discovered_datasets, lun_table,
                          storage_service, storage_service_prefix,
                          srvDatasets, srvLuns, nextId, destroyed, looked>>
           /\ UNCHANGED outsideFiler

\* What can go wrong in initialize_connection besides the requests of
\* the mapping: the detail lookups in DFM, the two proxy requests for the
\* target, a filer without portal and a filer without node name.
AttachFaults ==
    (MapRequests \ {"lun-unmap"})
    \cup {"LunListInfoIter", "HostListInfoIter", "iscsi-portal-list-info",
          "no portal", "iscsi-node-get-name", "no node name"}

\* initialize_connection(volume, connector): lun_id is
\* volume['provider_location'] (0 for none), lunpath the LunPath that
\* _get_lun_details returns for it.
InitializeConnection(lun_id, lunpath, initiator_name, fail) ==
    LET details(ok) == ProxyCall("LunListInfoIter", <<>>, <<>>, ok)
        host(ok) == ProxyCall("HostListInfoIter", <<>>, <<>>, ok)
        portal(ok) == ProxyCall("iscsi-portal-list-info", <<>>, <<>>, ok)
        iqn(ok) == ProxyCall("iscsi-node-get-name", <<>>, <<>>, ok)
        m == EnsureInitiatorMapped(lunpath, initiator_name, fail)
        calls1 == <<details(TRUE)>> \o m.calls
        stop(exc, calls) == Masked(exc, calls, -1, m.igroups, m.maps)
    IN IF lun_id = 0
       THEN Masked("NovaException: No LUN ID for volume", <<>>, -1,
                   igroups, lunMaps)
       ELSE IF fail = "LunListInfoIter"
       THEN Masked("NovaException: Failed to get LUN details for LUN ID",
                   <<details(FALSE)>>, -1, igroups, lunMaps)
       ELSE IF m.exc # ""
       THEN stop(m.exc, calls1)
       ELSE IF fail = "HostListInfoIter"
       THEN stop("NovaException: Failed to get host details for host ID",
                 Append(calls1, host(FALSE)))
       ELSE IF fail = "iscsi-portal-list-info"
       THEN stop("NovaException: iscsi-portal-list-info",
                 calls1 \o <<host(TRUE), portal(FALSE)>>)
       ELSE IF fail = "no portal"
       THEN stop("NovaException: Failed to get target portal for filer",
                 calls1 \o <<host(TRUE), portal(TRUE)>>)
       ELSE IF fail = "iscsi-node-get-name"
       THEN stop("NovaException: iscsi-node-get-name",
                 calls1 \o <<host(TRUE), portal(TRUE), iqn(FALSE)>>)
       ELSE IF fail = "no node name"
       THEN stop("NovaException: Failed to get target IQN for filer",
                 calls1 \o <<host(TRUE), portal(TRUE), iqn(TRUE)>>)
       ELSE Masked("", calls1 \o <<host(TRUE), portal(TRUE), iqn(TRUE)>>,
                   m.ret, m.igroups, m.maps)

\* initialize_connection(volume, connector)
initialize_connection ==
    /\ last = NoOp
    /\ \E lun_id \in 0..1, lunpath \in LunPaths,
          initiator_name \in Initiators, fail \in AttachFaults \cup {"none"} :
         \E r \in {InitializeConnection(lun_id, lunpath, initiator_name,
                                       fail)} :
           \* a fault is one the call meets
           /\ fail # "none" => r.exc # "" /\ lun_id # 0
           /\ lun_id = 0 => lunpath = "p1"
           /\ igroups' = r.igroups
           /\ lunMaps' = r.maps
           /\ last' = DoneMasking("initialize_connection", lunpath,
                                  initiator_name, r)
           /\ UNCHANGED <<discovered_luns, discovered_datasets, lun_table,
                          storage_service, storage_service_prefix,
                          srvDatasets, srvLuns, nextId, destroyed, looked>>
           /\ UNCHANGED outsideFiler

\* _ensure_initiator_mapped once more with the arguments of the execution
\* that has just failed, and without a failing request.
ensure_initiator_mapped_again ==
    /\ last # NoOp
    /\ last.op = "ensure_initiator_mapped"
    /\ last.exc # ""
    /\ \E r \in {EnsureInitiatorMapped(last.lunpath, last.initiator, "none")} :
           /\ igroups' = r.igroups
           /\ lunMaps' = r.maps
           /\ last' = DoneMasking("ensure_initiator_mapped_again",
                                  last.lunpath, last.initiator, r)
           /\ UNCHANGED <<discovered_luns, discovered_datasets, lun_table,
                          storage_service, storage_service_prefix,
                          srvDatasets, srvLuns, nextId, destroyed, looked>>
           /\ UNCHANGED outsideFiler

(***************************************************************************)
(*                  PART 4: the iteration protocol of DFM                  *)
(***************************************************************************)

\* The tags an ...IterStart may return.
MaxTag == 2

\* The non-empty answers an iteration has before the empty one.
MaxPages == 2

\* The iterations the driver opens: the prefix of their three calls.
PagedIters ==
    {"DatasetListInfoIter", "DatasetMemberListInfoIter",
     "DpJobProgressEventListIter"}

SingleIters == {"LunListInfoIter", "HostListInfoIter"}

\* One call of an iteration: <prefix>Start, <prefix>Next or <prefix>End, the
\* Tag argument (0 for Start, which has none), whether it returned.
IterCall(prefix, step, tag, ok) ==
    [iter |-> prefix, step |-> step, tag |-> tag, ok |-> ok]

\* The `while True` loop of _get_datasets, _discover_dataset_luns and
\* _get_job_progress: ...IterNext until an answer is empty. `pages` answers
\* are non-empty; the failNext-th call raises (0: none does). The result:
\* the exception, the calls, the number of answers collected.
RECURSIVE PagedLoop(_, _, _, _, _, _)
PagedLoop(prefix, tag, pages, k, failNext, calls) ==
    IF k = failNext
    THEN [exc |-> "WebFault: " \o prefix \o "Next",
          calls |-> Append(calls, IterCall(prefix, "Next", tag, FALSE)),
          got |-> k - 1]
    ELSE IF k > pages
    THEN [exc |-> "",
          calls |-> Append(calls, IterCall(prefix, "Next", tag, TRUE)),
          got |-> pages]
    ELSE PagedLoop(prefix, tag, pages, k + 1, failNext,
                   Append(calls, IterCall(prefix, "Next", tag, TRUE)))

\* The try block of _get_lun_details and _get_host_details: one ...IterNext
\* with Maximum=1, and the return from inside the block when it has an item.
SingleLoop(prefix, tag, pages, failNext, calls) ==
    IF failNext = 1
    THEN [exc |-> "WebFault: " \o prefix \o "Next",
          calls |-> Append(calls, IterCall(prefix, "Next", tag, FALSE)),
          got |-> 0]
    ELSE [exc |-> "",
          calls |-> Append(calls, IterCall(prefix, "Next", tag, TRUE)),
          got |-> IF pages > 0 THEN 1 ELSE 0]

\* The finally clause: ...IterEnd with the tag, whatever the try block did;
\* an exception of ...IterEnd replaces the block's.
FinallyOnlyOnSuccess(prefix, tag, body, endFails) ==
    IF body.exc # "" THEN body
    ELSE [body EXCEPT
             !.calls = Append(@, IterCall(prefix, "End", tag, ~endFails)),
             !.exc = IF endFails THEN "WebFault: " \o prefix \o "End" ELSE @]

Finally(prefix, tag, body, endFails) ==
    [body EXCEPT
        !.calls = Append(@, IterCall(prefix, "End", tag, ~endFails)),
        !.exc = IF endFails THEN "WebFault: " \o prefix \o "End" ELSE @]

\* An enumerating function as a whole: ...IterStart, whose exception leaves
\* the function before the try; tag = res.Tag; the try block; the finally
\* clause; for the single-item functions the NovaException after it when
\* the block did not return an item. startFails, failNext (0 for none) and
\* endFails say which calls raise.
Enumerate(prefix, tag, pages, startFails, failNext, endFails) ==
    LET start(ok) == IterCall(prefix, "Start", 0, ok)
        body == IF prefix \in SingleIters
                THEN SingleLoop(prefix, tag, pages, failNext, <<start(TRUE)>>)
                ELSE PagedLoop(prefix, tag, pages, 1, failNext,
                               <<start(TRUE)>>)
        done == Finally(prefix, tag, body, endFails)
    IN IF startFails
       THEN [exc |-> "WebFault: " \o prefix \o "Start",
             calls |-> <<start(FALSE)>>, got |-> 0]
       ELSE IF done.exc = "" /\ prefix \in SingleIters /\ done.got = 0
       THEN [done EXCEPT !.exc = "NovaException: Failed to get details"]
       ELSE done

NoIter == [fn |-> "none", tag |-> 0, pages |-> 0, exc |-> "", calls |-> <<>>,
           got |-> 0]

\* What a run of an enumerating function leaves in `iter`.
Enumerated(prefix, tag, pages, r) ==
    [fn |-> prefix, tag |-> tag, pages |-> pages, exc |-> r.exc,
     calls |-> r.calls, got |-> r.got]

\* A run of one of the three paged enumerations.
enumerate_paged ==
    \E prefix \in PagedIters, tag \in 1..MaxTag, pages \in 0..MaxPages,
       startFails, endFails \in BOOLEAN, failNext \in 0..(MaxPages + 1) :
        /\ failNext <= pages + 1
        \* inputs that are never read take one value
        /\ startFails => (tag = 1 /\ pages = 0 /\ failNext = 0 /\ ~endFails)
        /\ \E r \in {Enumerate(prefix, tag, pages, startFails, failNext,
                               endFails)} :
             iter' = Enumerated(prefix, IF startFails THEN 0 ELSE tag, pages, r)
        /\ UNCHANGED <<glanceVars, driverVars, filerVars, job, asideVars>>

\* A run of _get_lun_details or _get_host_details.
enumerate_single ==
    \E prefix \in SingleIters, tag \in 1..MaxTag, pages \in 0..1,
       startFails, endFails \in BOOLEAN, failNext \in 0..1 :
        /\ startFails => (tag = 1 /\ pages = 0 /\ failNext = 0 /\ ~endFails)
        /\ failNext = 1 => pages = 0
        /\ \E r \in {Enumerate(prefix, tag, pages, startFails, failNext,
                               endFails)} :
             iter' = Enumerated(prefix, IF startFails THEN 0 ELSE tag, pages, r)
        /\ UNCHANGED <<glanceVars, driverVars, filerVars, job, asideVars>>

(***************************************************************************)
(*                  PART 5: cloning a LUN on the filer                     *)
(***************************************************************************)

\* The clone operation ids the filer hands out.
CloneOpIds == 1..MaxCloneOps

\* What the filer holds about a clone operation: "" for no status element
\* yet, or the clone-state of its ops-info.
CloneStates == {"", "running", "completed", "failed"}

\* One ApiProxy request of _clone_lun: its Name, the clone-op-id it names
\* (0 for clone-start), what the filer answered (the clone-state reported,
\* "" for an empty status), and whether _check_fail let it pass.
CloneCall(request, op_id, answer, ok) ==
    [request |-> request, op_id |-> op_id, answer |-> answer, ok |-> ok]

\* _clone_lun(host_id, src_path, dest_path, snap) where it stands ("called",
\* "polling", "returned", "raised"), the clone-op-id of the clone-start
\* response, its requests, and the state of the clone operations on the
\* filer.
Cloning(at, src_path, dest_path, snap, op_id, calls, exc, filer) ==
    [at |-> at, src |-> src_path, dest |-> dest_path, snap |-> snap,
     op_id |-> op_id, calls |-> calls, exc |-> exc, filer |-> filer]

NoClone ==
    Cloning("none", "", "", FALSE, 0, <<>>, "", [o \in CloneOpIds |-> ""])

IsCloneDoneIfOver(state) == state \in {"completed", "failed"}

\* _is_clone_done on a response that passed: an empty status is False,
\* otherwise the clone-state is compared with 'completed'.
IsCloneDone(state) ==
    IF state = "" THEN FALSE ELSE state = "completed"

\* _clone_lun up to the loop: the clone-start request, which the filer
\* answers with a new clone-op-id or rejects.
clone_start ==
    /\ clone.at = "called"
    /\ \E ok \in BOOLEAN, op_id \in CloneOpIds :
         /\ ~ok => op_id = 1
         /\ clone' =
                IF ok
                THEN [clone EXCEPT
                         !.at = "polling", !.op_id = op_id,
                         !.calls = <<CloneCall("clone-start", 0, "", TRUE)>>]
                ELSE [clone EXCEPT
                         !.at = "raised",
                         !.exc = "NovaException: API clone-start failed",
                         !.calls = <<CloneCall("clone-start", 0, "", FALSE)>>]
    /\ UNCHANGED <<glanceVars, driverVars, filerVars, iter, job, client,
                   vfiler, codec, cm, callers>>

\* One iteration of `while not self._is_clone_done(...)`: the
\* clone-list-status request for the clone-op-id, then return, or sleep and
\* go round again; the request that fails raises.
is_clone_done ==
    /\ clone.at = "polling"
    /\ \E ok \in BOOLEAN :
         LET state == clone.filer[clone.op_id]
             call == CloneCall("clone-list-status", clone.op_id,
                               IF ok THEN state ELSE "", ok)
         IN /\ (ok /\ ~IsCloneDone(state)) => Len(clone.calls) <= MaxSleeps
            /\ clone' =
                   IF ~ok
                   THEN [clone EXCEPT
                            !.at = "raised",
                            !.exc = "NovaException: API clone-list-status failed",
                            !.calls = Append(@, call)]
                   ELSE [clone EXCEPT
                            !.at = IF IsCloneDone(state) THEN "returned"
                                   ELSE "polling",
                            !.calls = Append(@, call)]
    /\ UNCHANGED <<glanceVars, driverVars, filerVars, iter, job, client,
                   vfiler, codec, cm, callers>>

\* A clone operation on the filer moves on: it shows up as running, and a
\* running one completes or fails.
clone_progress ==
    /\ clone.at \in {"polling", "returned", "raised"}
    /\ \E o \in CloneOpIds, state \in CloneStates :
         /\ \/ clone.filer[o] = "" /\ state = "running"
            \/ clone.filer[o] = "running" /\ state \in {"completed", "failed"}
         /\ clone' = [clone EXCEPT !.filer[o] = state]
    /\ UNCHANGED <<glanceVars, driverVars, filerVars, iter, job, client,
                   vfiler, codec, cm, callers>>

(***************************************************************************)
(*        PART 6: conversion of image metadata to and from strings         *)
(***************************************************************************)

\* Longest sequence of mapping records under a recognized key.
MaxRecords == 2

\* The property keys the conversion recognizes.
ConvertProps == {"mappings", "block_device_mapping"}

\* The keys of a mapping record, in the order the text lists them.
RecordKeys == <<"device", "virtual">>

\* A scalar of a mapping record: its type and its literal.
Scalar(type, lit) == [type |-> type, lit |-> lit]

Scalars == {Scalar("str", "aaa"), Scalar("str", "1"), Scalar("int", "1")}

\* A token of a text: a punctuation mark, a quoted string or a bare literal.
Tok(sym, lit) == [sym |-> sym, lit |-> lit]

Mark(sym) == Tok(sym, "")

\* The values a property or a top-level field holds: a string (its text as
\* tokens), a sequence of mapping records, or a number.
Str(text) == [kind |-> "string", records |-> <<>>, text |-> text]

Records(rs) == [kind |-> "records", records |-> rs, text |-> <<>>]

Number(lit) == [kind |-> "number", records |-> <<>>, text |-> <<Tok("bare", lit)>>]

\* A string that is no serialized sequence, such as 'propvalue1'.
Word(lit) == Str(<<Tok("bare", lit)>>)

\* Every scalar written as a bare literal: a text that loses the quotes.
DumpScalarBare(v) == Tok("bare", v.lit)

\* A scalar as text: strings quoted, everything else bare.
DumpScalar(v) ==
    IF v.type = "str" THEN Tok("str", v.lit) ELSE Tok("bare", v.lit)

LoadScalar(t) ==
    IF t.sym = "str" THEN Scalar("str", t.lit) ELSE Scalar("int", t.lit)

\* The members of record r for the keys ks, separated by commas.
RECURSIVE DumpMembers(_, _)
DumpMembers(r, ks) ==
    IF ks = <<>> THEN <<>>
    ELSE <<Tok("str", Head(ks)), Mark(":"), DumpScalar(r[Head(ks)])>>
         \o (IF Len(ks) > 1 THEN <<Mark(",")>> ELSE <<>>)
         \o DumpMembers(r, Tail(ks))

DumpRecord(r) ==
    <<Mark("{")>>
    \o DumpMembers(r, SelectSeq(RecordKeys, LAMBDA k : k \in DOMAIN r))
    \o <<Mark("}")>>

RECURSIVE DumpItems(_)
DumpItems(rs) ==
    IF rs = <<>> THEN <<>>
    ELSE DumpRecord(Head(rs))
         \o (IF Len(rs) > 1 THEN <<Mark(",")>> ELSE <<>>)
         \o DumpItems(Tail(rs))

\* The text of a sequence of mapping records.
Dumps(rs) == <<Mark("[")>> \o DumpItems(rs) \o <<Mark("]")>>

\* What a parse yields: the value read and the position after it, or
\* ok = FALSE where the text is no serialized sequence.
Parsed(ok, value, next) == [ok |-> ok, value |-> value, next |-> next]

ParseError == Parsed(FALSE, <<>>, 0)

Is(text, i, sym) == i <= Len(text) /\ text[i].sym = sym

\* The members of a record from position i on, r being those read so far;
\* more tells that a comma has just been read.
RECURSIVE LoadMembers(_, _, _, _)
LoadMembers(text, i, r, more) ==
    IF Is(text, i, "}") /\ ~more THEN Parsed(TRUE, r, i + 1)
    ELSE IF /\ Is(text, i, "str") /\ Is(text, i + 1, ":")
            /\ (Is(text, i + 2, "str") \/ Is(text, i + 2, "bare"))
         THEN LET r2 == [k \in DOMAIN r \cup {text[i].lit} |->
                            IF k = text[i].lit THEN LoadScalar(text[i + 2])
                            ELSE r[k]]
              IN IF Is(text, i + 3, ",")
                 THEN LoadMembers(text, i + 4, r2, TRUE)
                 ELSE IF Is(text, i + 3, "}")
                      THEN Parsed(TRUE, r2, i + 4)
                      ELSE ParseError
         ELSE ParseError

\* The records of a sequence from position i on.
RECURSIVE LoadItems(_, _, _, _)
LoadItems(text, i, rs, more) ==
    IF Is(text, i, "]") /\ ~more THEN Parsed(TRUE, rs, i + 1)
    ELSE IF Is(text, i, "{")
         THEN LET m == LoadMembers(text, i + 1, <<>>, FALSE)
              IN IF ~m.ok THEN ParseError
                 ELSE IF Is(text, m.next, ",")
                      THEN LoadItems(text, m.next + 1,
                                     Append(rs, m.value), TRUE)
                      ELSE IF Is(text, m.next, "]")
                           THEN Parsed(TRUE, Append(rs, m.value), m.next + 1)
                           ELSE ParseError
         ELSE ParseError

\* The sequence of mapping records a text stands for.
Loads(text) ==
    IF ~Is(text, 1, "[") THEN ParseError
    ELSE LET p == LoadItems(text, 2, <<>>, FALSE)
         IN IF p.ok /\ p.next = Len(text) + 1 THEN p ELSE ParseError

\* A conversion that serializes whatever a recognized key holds but a
\* string.
JsonDumpsAny(value) ==
    IF value.kind = "records" THEN Str(Dumps(value.records))
    ELSE IF value.kind = "number" THEN Str(value.text)
    ELSE value

\* encode, for one recognized key: a sequence of mapping records becomes
\* its text.
JsonDumps(value) ==
    IF value.kind = "records" THEN Str(Dumps(value.records)) ELSE value

\* decode, for one recognized key: a string is parsed.
JsonLoads(value) ==
    IF value.kind = "string" THEN Records(Loads(value.text).value) ELSE value

\* A metadata mapping: top-level fields and, when present, its properties.
Metadata(name, has, properties) ==
    [name |-> name, has_properties |-> has, properties |-> properties]

NoProperties == [k \in {} |-> Word("")]

\* The outcome of a conversion.
Converted(exc, metadata) == [exc |-> exc, metadata |-> metadata]

\* _convert_to_string(metadata)
ConvertToString(metadata) ==
    Converted("",
        [metadata EXCEPT !.properties =
            [k \in DOMAIN metadata.properties |->
                IF k \in ConvertProps THEN JsonDumps(metadata.properties[k])
                ELSE metadata.properties[k]]])

\* _convert_from_string(metadata)
ConvertFromString(metadata) ==
    IF \E k \in DOMAIN metadata.properties \cap ConvertProps :
           /\ metadata.properties[k].kind = "string"
           /\ ~Loads(metadata.properties[k].text).ok
    THEN Converted("ValueError", metadata)
    ELSE Converted("",
        [metadata EXCEPT !.properties =
            [k \in DOMAIN metadata.properties |->
                IF k \in ConvertProps THEN JsonLoads(metadata.properties[k])
                ELSE metadata.properties[k]]])

\* The mapping records explored.
MappingRecords ==
    UNION {[D -> Scalars] : D \in SUBSET {RecordKeys[i] : i \in 1..Len(RecordKeys)}}

RecordSeqs == UNION {[1..n -> MappingRecords] : n \in 0..MaxRecords}

\* What 'mappings' holds in the metadata explored: nothing, a sequence of
\* records, a text, a string that is no text, a number.
MappingsValues ==
    {Records(rs) : rs \in RecordSeqs}
    \cup {Str(Dumps(<<>>)), Word("propvalue1"), Number("5")}

BlockDeviceValues ==
    {Records(<<>>),
     Records(<<[device |-> Scalar("str", "aaa")]>>),
     Str(Dumps(<<[virtual |-> Scalar("int", "1")]>>))}

\* The properties explored: each key present or not.
PropertiesOf(m, b, p) ==
    [k \in (IF m = <<>> THEN {} ELSE {"mappings"})
           \cup (IF b = <<>> THEN {} ELSE {"block_device_mapping"})
           \cup (IF p = <<>> THEN {} ELSE {"prop1"}) |->
        IF k = "mappings" THEN m[1]
        ELSE IF k = "block_device_mapping" THEN b[1] ELSE p[1]]

Metadatas ==
    {Metadata("image1", FALSE, NoProperties)}
    \cup {Metadata("image1", TRUE, PropertiesOf(m, b, p)) :
            m \in {<<>>} \cup {<<v>> : v \in MappingsValues},
            b \in {<<>>} \cup {<<v>> : v \in BlockDeviceValues},
            p \in {<<>>, <<Word("propvalue1")>>}}

\* A metadata mapping under observation: at tells how far it went.
Codec(at, metadata, converted, restored) ==
    [at |-> at, metadata |-> metadata, converted |-> converted,
     restored |-> restored]

NoMetadata == Metadata("", FALSE, NoProperties)

NoConverted == Converted("", NoMetadata)

NoCodec == Codec("none", NoMetadata, NoConverted, NoConverted)

\* converted = glance._convert_to_string(metadata)
convert_to_string ==
    /\ codec.at = "metadata"
    /\ codec' = [codec EXCEPT !.at = "converted",
                              !.converted = ConvertToString(codec.metadata)]
    /\ UNCHANGED <<glanceVars, driverVars, filerVars, iter, job,
                   clone, client, vfiler, cm, callers>>

\* glance._convert_from_string(converted), or of the metadata as it came
convert_from_string ==
    /\ codec.at \in {"metadata", "converted"}
    /\ codec.at = "converted" => codec.converted.exc = ""
    /\ codec' = [codec EXCEPT
           !.at = IF codec.at = "converted" THEN "restored" ELSE "parsed",
           !.restored = ConvertFromString(
                            IF codec.at = "converted"
                            THEN codec.converted.metadata
                            ELSE codec.metadata)]
    /\ UNCHANGED <<glanceVars, driverVars, filerVars, iter, job,
                   clone, client, vfiler, cm, callers>>

(***************************************************************************)
(*                     PART 7: NetAppCmodeISCSIDriver                      *)
(***************************************************************************)

\* Most LUNs the C-mode driver creates.
MaxCmLuns == 2

Clusters == {"c1", "c2"}

Vservers == {"vs1", "vs2"}

CmLocation(cluster, vserver) == [cluster |-> cluster, vserver |-> vserver]

CmLocations == {CmLocation(c, v) : c \in Clusters, v \in Vservers}

CmLun(location, lun_path) == [location |-> location, path |-> lun_path]

NoCmLun == CmLun(CmLocation("", ""), <<>>)

EmptyCmTable == [n \in Names |-> NoCmLun]

\* self.luns and self.lun_table, and the operation in progress.
CmDriver(luns, table, op) == [luns |-> luns, lun_table |-> table, last |-> op]

CmOp(op, name, location, exc, lun, scanned, calls) ==
    [op |-> op, name |-> name, location |-> location, exc |-> exc,
     lun |-> lun, scanned |-> scanned, calls |-> calls]

NoCmOp == CmOp("", "", CmLocation("", ""), "", NoCmLun, 0, <<>>)

\* The driver after __init__.
NoCmode == CmDriver(<<>>, EmptyCmTable, NoCmOp)

\* _lookup_lun_for_volume(name, location) over self.luns and
\* self.lun_table.  CmLocation defines no item access, so the comparison
\* of lun.location['cluster'] raises TypeError at the first LUN whose path
\* has the suffix; no branch assigns to lun_table.
CmLookupLunForVolume(luns, table, name, location) ==
    IF table[name] # NoCmLun
    THEN [exc |-> "", lun |-> table[name], table |-> table, scanned |-> 0]
    ELSE IF \E i \in 1..Len(luns) : EndsWithName(luns[i].path, name)
    THEN [exc |-> "TypeError", lun |-> NoCmLun, table |-> table,
          scanned |-> CHOOSE k \in 1..Len(luns) :
                          /\ EndsWithName(luns[k].path, name)
                          /\ \A m \in 1..(k - 1) :
                                 ~EndsWithName(luns[m].path, name)]
    ELSE [exc |-> "NovaException: No entry for lun in volume",
          lun |-> NoCmLun, table |-> table, scanned |-> Len(luns)]

\* Most getJobStatus answers that find the job still under way.
MaxCmWaits == 2

\* An answer of getJobStatus; returns tells whether it holds
\* 'returnParameter'.
JobStatus(jobStatus, scheduleType, returns) ==
    [jobStatus |-> jobStatus, scheduleType |-> scheduleType,
     returns |-> returns]

\* A loop that asks again only while the job is RUNNING.
StillRunningOnly(response) == response.jobStatus = "RUNNING"

\* The answers on which _get_workflow_run_response sleeps and asks again.
StillRunning(response) ==
    \/ response.jobStatus = "RUNNING"
    \/ /\ response.jobStatus = "SCHEDULED"
       /\ response.scheduleType = "Immediate"
    \/ /\ response.jobStatus = "PENDING"
       /\ response.scheduleType = "Immediate"

JobAnswers ==
    {JobStatus("RUNNING", "Immediate", FALSE),
     JobStatus("SCHEDULED", "Immediate", FALSE),
     JobStatus("PENDING", "Immediate", FALSE),
     JobStatus("SCHEDULED", "Recurring", FALSE),
     JobStatus("PENDING", "Recurring", FALSE),
     JobStatus("COMPLETED", "Immediate", TRUE),
     JobStatus("COMPLETED", "Immediate", FALSE),
     JobStatus("FAILED", "Immediate", FALSE),
     JobStatus("ABORTED", "Immediate", FALSE)}

\* What the server answers to the successive getJobStatus requests for one
\* job: any answers, then one of a job that has completed, failed or was
\* aborted.
JobRuns ==
    {Append(w, f) :
        w \in UNION {[1..n -> JobAnswers] : n \in 0..MaxCmWaits},
        f \in {a \in JobAnswers :
                  a.jobStatus \in {"COMPLETED", "FAILED", "ABORTED"}}}

NoAnswer == JobStatus("", "", FALSE)

\* A request to the WFA server and, for getJobStatus, its answer.
CmCall(op, arg, answer) == [op |-> op, arg |-> arg, answer |-> answer]

\* _get_workflow_run_response(job_id): the answers it obtains, up to the
\* first on which it does not sleep.
RECURSIVE GetWorkflowRunResponse(_)
GetWorkflowRunResponse(answers) ==
    IF StillRunning(Head(answers))
    THEN <<Head(answers)>> \o GetWorkflowRunResponse(Tail(answers))
    ELSE <<Head(answers)>>

\* _get_workflow_return_parameters(job_id), given the last answer: the
\* exception and whether parameters are returned (None otherwise).
GetWorkflowReturnParameters(response) ==
    IF response.jobStatus = "COMPLETED"
    THEN [exc |-> "", returns |-> response.returns]
    ELSE IF response.jobStatus = "FAILED"
    THEN [exc |-> "NovaException: errorMessage", returns |-> FALSE]
    ELSE [exc |-> "NovaException: Job did not complete successfully. Status: "
                     \o response.jobStatus,
          returns |-> FALSE]

\* _execute_workflow(workflow_name, **input_params): strings tells whether
\* every parameter is a string, which _create_input_param_list needs to
\* concatenate them; answers are the server's answers to getJobStatus.
ExecuteWorkflow(workflow_name, strings, answers) ==
    IF ~strings
    THEN [exc |-> "TypeError", returns |-> FALSE, calls |-> <<>>]
    ELSE LET got == GetWorkflowRunResponse(answers)
             r == GetWorkflowReturnParameters(got[Len(got)])
         IN [exc |-> r.exc, returns |-> r.returns,
             calls |-> <<CmCall("executeWorkflow", workflow_name, NoAnswer)>>
                       \o [i \in 1..Len(got) |->
                              CmCall("getJobStatus", "job_id", got[i])]]

\* _create_lun(lun_name, lun_os_type, lun_size_mb): lun is the LUN the
\* workflow's return parameters describe.  A workflow that completed
\* without return parameters returns None, which _convert_res_to_dict
\* cannot iterate.
CreateLun(luns, table, lun_name, strings, answers, lun) ==
    LET w == ExecuteWorkflow("Create CM Lun", strings, answers)
    IN IF w.exc # ""
       THEN [exc |-> w.exc, calls |-> w.calls, luns |-> luns, table |-> table]
       ELSE IF ~w.returns
       THEN [exc |-> "TypeError", calls |-> w.calls, luns |-> luns,
             table |-> table]
       ELSE [exc |-> "", calls |-> w.calls, luns |-> Append(luns, lun),
             table |-> [table EXCEPT ![lun_name] = lun]]

\* The sizes of a volume: 0 for a volume without size.
CmSizes == {0, 1}

\* create_volume(volume): a volume with a size asks for int(size) /
\* megabytes, a number, and one without for the string '100'; the
\* 'Create CM Lun' workflow names the cluster, the vserver and the path of
\* the LUN it made.
cm_create_volume ==
    /\ cm.last = NoCmOp
    /\ Len(cm.luns) < MaxCmLuns
    /\ \E name \in Names, size \in CmSizes, answers \in JobRuns,
          location \in CmLocations, leaf \in Names :
       \E r \in {CreateLun(cm.luns, cm.lun_table, name, size = 0, answers,
                           CmLun(location, <<"vol", "vol1", leaf>>))} :
           /\ r.exc # "" => location = CmLocation("c1", "vs1") /\ leaf = name
           /\ size # 0 => answers = <<JobStatus("FAILED", "Immediate", FALSE)>>
           /\ cm' = CmDriver(r.luns, r.table,
                             CmOp("create_volume", name,
                                  IF r.exc = "" THEN location
                                  ELSE CmLocation("", ""),
                                  r.exc,
                                  IF r.exc = ""
                                  THEN CmLun(location, <<"vol", "vol1", leaf>>)
                                  ELSE NoCmLun,
                                  0, r.calls))
    /\ UNCHANGED <<glanceVars, driverVars, filerVars, iter, job,
                   clone, client, vfiler, codec, callers>>

\* delete_volume(volume): it calls self._remove_lun, a method the class
\* does not define.
DeleteVolume(luns, table, name, location) ==
    [exc |-> "AttributeError", calls |-> <<>>, luns |-> luns, table |-> table]

cm_delete_volume ==
    /\ cm.last = NoCmOp
    /\ \E name \in Names, location \in CmLocations :
       \E r \in {DeleteVolume(cm.luns, cm.lun_table, name, location)} :
           cm' = CmDriver(r.luns, r.table,
                          CmOp("delete_volume", name, location, r.exc,
                               NoCmLun, 0, r.calls))
    /\ UNCHANGED <<glanceVars, driverVars, filerVars, iter, job,
                   clone, client, vfiler, codec, callers>>

\* self._lookup_lun_for_volume(vol_name, location), as create_snapshot,
\* delete_snapshot and create_volume_from_snapshot call it first
cm_lookup_lun_for_volume ==
    /\ cm.last = NoCmOp
    /\ \E name \in Names, location \in CmLocations :
       \E r \in {CmLookupLunForVolume(cm.luns, cm.lun_table, name, location)} :
           cm' = [cm EXCEPT !.lun_table = r.table,
                            !.last = CmOp("_lookup_lun_for_volume", name,
                                          location, r.exc, r.lun, r.scanned,
                                          <<>>)]
    /\ UNCHANGED <<glanceVars, driverVars, filerVars, iter, job,
                   clone, client, vfiler, codec, callers>>

\* The caller takes the outcome.
cm_return ==
    /\ cm.last # NoCmOp
    /\ cm' = [cm EXCEPT !.last = NoCmOp]
    /\ UNCHANGED <<glanceVars, driverVars, filerVars, iter, job,
                   clone, client, vfiler, codec, callers>>

(***************************************************************************)
(*                PART 9: a volume cloned from a snapshot                  *)
(***************************************************************************)

\* Largest volume size in GB explored.
MaxSize == 2

\* The remote calls of create_volume_from_snapshot that can be made to fail,
\* and the clone operation that ends in a state other than 'completed'.
CloneFaults ==
    {"LunListInfoIter", "volume-size", "qtree-create", "clone-start",
     "clone-list-status", "clone failed", "DfmObjectRefresh",
     "DfmMonitorTimestampList", "DatasetMemberListInfoIterStart",
     "DatasetMemberListInfoIterEnd"}

\* The path under which DFM lists the clone `clone_name` made in the volume
\* of a dataset: host:/volume/clone_name/clone_name.
ClonePath(dataset_name, clone_name) ==
    <<"filer:">> \o dataset_name \o <<clone_name, clone_name>>

\* _discover_dataset_luns(dataset, volume) for a volume name: a DfmLun for
\* every member of `members` whose name ends with '/' + volume.
DiscoverDatasetLuns(dataset, volume, members) ==
    LET kept == SelectSeq(members, LAMBDA m : EndsWithName(m.path, volume))
    IN [i \in 1..Len(kept) |-> DfmLun(dataset, kept[i].path, kept[i].id)]

\* create_volume_from_snapshot(volume, snapshot). `fail` is the remote call
\* that fails ("none" for none), `polls` and `stamps` the number of
\* clone-list-status and DfmMonitorTimestampList answers that send the
\* driver to sleep again, `learned` whether DFM comes to list the clone
\* without having been asked to refresh. The server lists the clone as a
\* member of the source's dataset once the refresh is through. The result:
\* the exception ("never returns" for a loop that does not end), the
\* calls, lun_table and discovered_luns as the call leaves them, the source
\* Lun, whether DFM lists the clone by then.
CreateVolumeFromSnapshot(volume, snapshot, fail, polls, stamps, learned) ==
    LET lk == LookupLunForVolume(snapshot.volume_name, snapshot.project)
        dataset == lk.lun.dataset
        srvLun == SrvLun(nextId.lun, dataset.id,
                         ClonePath(dataset.name, volume.name))
        call(op, ok) == RemoteCall(op, 0, <<>>, ok)
        details(ok) == RemoteCall("LunListInfoIter", lk.lun.id, <<>>, ok)
        members(ok) == RemoteCall("DatasetMemberListInfoIter", dataset.id,
                                  <<>>, ok)
        status == [i \in 1..(polls + 1) |-> call("clone-list-status", TRUE)]
        stamp == [i \in 1..(stamps + 1) |->
                      call("DfmMonitorTimestampList", TRUE)]
        all == <<details(TRUE), call("volume-size", TRUE),
                 call("qtree-create", TRUE), call("clone-start", TRUE)>>
               \o status \o <<call("DfmObjectRefresh", TRUE)>> \o stamp
        upTo(op) ==
            IF \E i \in 1..Len(all) : all[i].op = op
            THEN SubSeq(all, 1,
                        (CHOOSE i \in 1..Len(all) :
                             /\ all[i].op = op
                             /\ \A j \in 1..(i - 1) : all[j].op # op) - 1)
            ELSE all
        listed == ById({l \in srvLuns \cup {srvLun} : l.dataset = dataset.id})
        found == DiscoverDatasetLuns(dataset, volume.name, listed)
        out(exc, calls, luns, known) ==
            [exc |-> exc, calls |-> calls, table |-> lk.table, luns |-> luns,
             source |-> lk.lun, known |-> known]
        raise(op) ==
            out("NovaException: " \o op, Append(upTo(op), call(op, FALSE)),
                discovered_luns,
                learned /\ op \in {"DfmObjectRefresh",
                                   "DfmMonitorTimestampList"})
    IN IF volume.size # snapshot.volume_size
       THEN [exc |-> "NovaException: Cannot create volume of size",
             calls |-> <<>>, table |-> lun_table, luns |-> discovered_luns,
             source |-> NoLun, known |-> FALSE]
       ELSE IF lk.exc # ""
       THEN out(lk.exc, <<>>, discovered_luns, FALSE)
       ELSE IF volume.type # dataset.type
       THEN out("NovaException: Cannot create volume of type", <<>>,
                discovered_luns, FALSE)
       ELSE IF fail = "LunListInfoIter"
       THEN out("NovaException: Failed to get LUN details",
                <<details(FALSE)>>, discovered_luns, FALSE)
       ELSE IF fail \in {"volume-size", "qtree-create", "clone-start",
                         "clone-list-status", "DfmObjectRefresh",
                         "DfmMonitorTimestampList"}
       THEN raise(fail)
       ELSE IF fail = "clone failed"
       THEN out("never returns", upTo("DfmObjectRefresh"), discovered_luns,
                FALSE)
       ELSE IF fail = "DatasetMemberListInfoIterStart"
       THEN out("WebFault: DatasetMemberListInfoIterStart",
                Append(upTo("DatasetMemberListInfoIter"), members(FALSE)),
                discovered_luns, TRUE)
       ELSE IF fail = "DatasetMemberListInfoIterEnd"
       THEN out("WebFault: DatasetMemberListInfoIterEnd",
                Append(upTo("DatasetMemberListInfoIter"), members(FALSE)),
                discovered_luns \o found, TRUE)
       ELSE out("", Append(upTo("DatasetMemberListInfoIter"), members(TRUE)),
                discovered_luns \o found, TRUE)

\* What create_volume_from_snapshot leaves in `last`: the volume, the
\* snapshot, the exception, the calls, the source Lun.
DoneCloning(volume, snapshot, r) ==
    [op |-> "create_volume_from_snapshot", name |-> volume.name,
     project |-> volume.project, ss_type |-> volume.type,
     size |-> volume.size, snapshot |-> snapshot,
     exc |-> r.exc, calls |-> r.calls, ret |-> r.source]

\* The volume manager calls create_volume_from_snapshot for a new volume,
\* whose name no LUN carries yet, and a snapshot of a volume that exists
\* on the server, taken in that volume's project.
create_volume_from_snapshot ==
    /\ last = NoOp
    /\ \E name \in Names, project \in Projects,
          type \in {NoType, <<"gold">>}, size \in 1..MaxSize,
          l \in srvLuns, snap_size \in 1..MaxSize,
          fail \in CloneFaults \cup {"none"}, polls \in 0..1,
          stamps \in 0..1, learned \in BOOLEAN :
        LET volume == [name |-> name, project |-> project, type |-> type,
                       size |-> size]
            owner == CHOOSE d \in srvDatasets : d.id = l.dataset
            snapshot == [volume_name |-> l.path[Len(l.path)],
                         project |-> owner.project,
                         volume_size |-> snap_size]
        IN \E r \in {CreateVolumeFromSnapshot(volume, snapshot, fail, polls,
                                               stamps, learned)} :
           /\ \A m \in srvLuns : ~EndsWithName(m.path, name)
           /\ lun_table[name] = NoLun
           /\ nextId.lun <= MaxLunId
           \* inputs that are never read take one value
           /\ r.calls = <<>> => fail = "none"
           /\ fail # "none" => r.exc # ""
           /\ Len(r.calls) <= 4 => polls = 0
           /\ (\A i \in 1..Len(r.calls) :
                  r.calls[i].op # "DfmMonitorTimestampList" \/ ~r.calls[i].ok)
                  => stamps = 0
           /\ fail \notin {"DfmObjectRefresh", "DfmMonitorTimestampList"}
                  => ~learned
           /\ lun_table' = r.table
           /\ discovered_luns' = r.luns
           /\ srvLuns' = IF r.known
                         THEN srvLuns \cup
                              {SrvLun(nextId.lun, r.source.dataset.id,
                                      ClonePath(r.source.dataset.name, name))}
                         ELSE srvLuns
           /\ nextId' = [nextId EXCEPT !.lun = IF r.known THEN @ + 1 ELSE @]
           /\ last' = DoneCloning(volume, snapshot, r)
           /\ UNCHANGED <<discovered_datasets, storage_service,
                          storage_service_prefix, srvDatasets, destroyed,
                          looked>>
           /\ UNCHANGED outsideDriver

(***************************************************************************)
(*          PART 8: create_volume called by two callers at a time          *)
(***************************************************************************)

\* Number of callers inside create_volume at the same time.
MaxCallers == 2

Callers == 1..MaxCallers

\* The volume each caller creates.
VolumeOf(c) == IF c = 1 THEN "v1" ELSE "v2"

\* A caller of create_volume: the statement of _provision it stands before
\* ("idle" before the call, "returned" after it), its arguments, its local
\* variable `dataset`, the remote calls it has made and the exception it
\* has raised.
Caller(pc, name, project, ss_type, dataset, calls, exc) ==
    [pc |-> pc, name |-> name, project |-> project, ss_type |-> ss_type,
     dataset |-> dataset, calls |-> calls, exc |-> exc]

IdleCaller == Caller("idle", "", <<>>, NoType, NoDataset, <<>>, "")

NoCallers == [serialized |-> TRUE, at |-> <<>>]

\* The driver has no lock of its own; when the callers are serialized from
\* outside, one runs only while no other is inside create_volume.
MayRun(c) ==
    callers.serialized =>
        \A o \in Callers \ {c} : callers.at[o].pc \in {"idle", "returned"}

\* What the statements of _provision leave alone besides the driver's
\* tables and the DFM server.
outsideProvision ==
    <<glanceVars, filerVars, iter, job, clone, client, vfiler, codec, cm>>

\* create_volume up to `dataset = self._get_dataset(dataset_name)` in
\* _provision: the caller now holds the cached dataset or None.
provision_get_dataset ==
    \E c \in Callers, project \in Projects :
        /\ callers.at[c].pc = "idle"
        /\ MayRun(c)
        /\ LET dataset == GetDataset(discovered_datasets,
                                     DatasetName(project, NoType))
           IN callers' =
                  [callers EXCEPT !.at[c] =
                       Caller(IF dataset = NoDataset THEN "create"
                              ELSE "member",
                              VolumeOf(c), project, NoType, dataset, <<>>, "")]
        /\ UNCHANGED <<driverVars, outsideProvision>>

\* `if not dataset:` taken, _create_dataset up to the return of
\* StorageServiceDatasetProvision: the two flag checks, then the call,
\* which raises or returns a new dataset id. Whether the server takes a
\* second dataset of a name it holds is not the driver's to decide: both
\* replies are open for every request.
provision_create_dataset ==
    \E c \in Callers, reply \in {"created", "WebFault"} :
        LET me == callers.at[c]
            dataset_name == DatasetName(me.project, me.ss_type)
            call(ok) == RemoteCall("StorageServiceDatasetProvision", 0,
                                   dataset_name, ok)
            raise(exc, calls) ==
                /\ callers' = [callers EXCEPT !.at[c] =
                                   [me EXCEPT !.pc = "returned", !.exc = exc,
                                              !.calls = calls]]
                /\ UNCHANGED <<srvDatasets, nextId>>
        IN /\ me.pc = "create"
           /\ MayRun(c)
           /\ IF me.ss_type # NoType /\ storage_service_prefix = ""
              THEN raise("NovaException: volume_type without netapp_storage_service_prefix",
                         <<>>)
              ELSE IF ~(me.ss_type # NoType \/ storage_service # "")
              THEN raise("NovaException: netapp_storage_service not set", <<>>)
              ELSE IF reply = "WebFault"
              THEN raise("WebFault: StorageServiceDatasetProvision",
                         <<call(FALSE)>>)
              ELSE /\ callers' =
                          [callers EXCEPT !.at[c] =
                               [me EXCEPT !.pc = "append",
                                          !.calls = <<call(TRUE)>>,
                                          !.dataset =
                                              DfmDataset(nextId.ds, dataset_name,
                                                         me.project, me.ss_type)]]
                   /\ srvDatasets' = srvDatasets \cup
                          {SrvDataset(nextId.ds, dataset_name, me.project,
                                      me.ss_type)}
                   /\ nextId' = [nextId EXCEPT !.ds = @ + 1]
           /\ UNCHANGED <<discovered_luns, discovered_datasets, lun_table,
                          storage_service, storage_service_prefix, srvLuns,
                          destroyed, looked, last>>
           /\ UNCHANGED outsideProvision

\* The end of _create_dataset: self.discovered_datasets.append(ds)
provision_append_dataset ==
    \E c \in Callers :
        /\ callers.at[c].pc = "append"
        /\ MayRun(c)
        /\ discovered_datasets' =
               Append(discovered_datasets, callers.at[c].dataset)
        /\ callers' = [callers EXCEPT !.at[c].pc = "member"]
        /\ UNCHANGED <<discovered_luns, lun_table, storage_service,
                       storage_service_prefix, srvDatasets, srvLuns, nextId,
                       destroyed, looked, last>>
        /\ UNCHANGED outsideProvision

\* The rest of _provision with the dataset the caller holds: the edit, the
\* jobs, the cache writes; then create_volume returns or raises.
provision_member ==
    \E c \in Callers, F \in {{}, {"DatasetEditBegin"}}, lock_id \in LockIds,
       idle \in 0..MaxIdlePolls, kind \in JobKinds :
      LET me == callers.at[c]
          none == [exc |-> "", calls |-> <<>>, ds |-> NoDataset]
      IN \E r \in {ProvisionMember(me.name, me.dataset, none,
                                    discovered_datasets, F, lock_id,
                                    <<kind>>, idle)} :
        LET made == r.committed /\ kind = "created"
            srvLun == SrvLun(nextId.lun, me.dataset.id,
                             ServerLunPath(me.dataset.name, me.name))
        IN /\ me.pc = "member"
           /\ MayRun(c)
           /\ made => /\ nextId.lun <= MaxLunId
                      /\ \A l \in srvLuns : l.path # srvLun.path
           /\ r.lock = 0 => lock_id = 1
           /\ ~r.committed => idle = 0 /\ kind = "ended"
           /\ discovered_luns' = r.luns
           /\ lun_table' = r.table
           /\ srvLuns' = IF made THEN srvLuns \cup {srvLun} ELSE srvLuns
           /\ nextId' = [nextId EXCEPT !.lun = IF made THEN @ + 1 ELSE @]
           /\ callers' = [callers EXCEPT !.at[c] =
                              [me EXCEPT !.pc = "returned", !.exc = r.exc,
                                         !.calls = @ \o r.calls]]
           /\ UNCHANGED <<discovered_datasets, storage_service,
                          storage_service_prefix, srvDatasets, destroyed,
                          looked, last>>
           /\ UNCHANGED outsideProvision

(***************************************************************************)
(*                            Specifications                               *)
(***************************************************************************)

\* The driver after __init__ and do_setup, against a server that holds
\* nothing yet: _check_flags has seen to it that a storage service or a
\* storage service prefix is set.
DriverReady ==
    /\ discovered_luns = <<>>
    /\ discovered_datasets = <<>>
    /\ lun_table = EmptyLunTable
    /\ storage_service = "service"
    /\ storage_service_prefix = "prefix_"
    /\ srvDatasets = {}
    /\ srvLuns = {}
    /\ nextId = [ds |-> 1, lun |-> 1]
    /\ destroyed = {}
    /\ looked = EmptyLunTable
    /\ last = NoOp


\* A filer without igroups and mappings.
FilerEmpty ==
    /\ igroups = <<>>
    /\ lunMaps = {}

\* The filers the masking specification starts from: any of the igroups
\* that are not the driver's may be there, and p1 may be mapped to them.
FilerAsFound ==
    /\ igroups \in {<<>>, <<ManualIgroup>>, <<WindowsIgroup>>,
                    <<ManualIgroup, WindowsIgroup>>}
    /\ lunMaps \in SUBSET {LunMap(igroups[i].name, VolPath("p1"), 0) :
                               i \in 1..Len(igroups)}

\* do_setup has made the client; no vfiler is configured.
ClientReady ==
    /\ client = "http://dfm:8088/apis/soap/v1"
    /\ vfiler = ""

\* No metadata converted, no C-mode driver constructed.
NothingElse ==
    /\ codec = NoCodec
    /\ cm = NoCmode
    /\ callers = NoCallers

\* No function observed on its own yet.
NothingObserved ==
    /\ iter = NoIter
    /\ job = NoJob
    /\ clone = NoClone
    /\ ClientReady
    /\ NothingElse

\* No wrapper activity: the state the driver's specification keeps.
GlanceIdle ==
    /\ shuffle = FakeShuffle
    /\ wrapper = NewWrapper(NoHost, FakeShuffle)
    /\ lastCall = NoCall

InitGlance == GlanceIdle /\ DriverReady /\ FilerEmpty /\ NothingObserved

Init == GlanceIdle /\ DriverReady /\ FilerEmpty /\ NothingObserved

\* The test (or the random state) changes what shuffle does.
SetShuffle ==
    \E sh \in Shuffles :
        /\ sh # shuffle
        /\ shuffle' = sh
        /\ UNCHANGED <<wrapper, lastCall>>
        /\ UNCHANGED outsideGlance

\* glance.GlanceClientWrapper(...)
Construct ==
    \E host \in {NoHost, StaticHost} :
        /\ wrapper' = NewWrapper(host, shuffle)
        /\ lastCall' = NoCall
        /\ UNCHANGED shuffle
        /\ UNCHANGED outsideGlance

\* client.call(ctxt, method, ...) under glance_num_retries = n
Call ==
    \E n \in 0..MaxRetries, fails \in 0..(MaxRetries + 1),
       then \in Outcomes \ {"conn"} :
        LET r == Attempts(wrapper, shuffle, 1, NumAttempts(n),
                          OutcomesOf(fails, then), <<>>)
        IN /\ fails <= n + 1
           /\ wrapper' = [r.w EXCEPT !.fresh = FALSE]
           /\ lastCall' = [n |-> n, fails |-> fails, then |-> then,
                           log |-> r.log, result |-> r.result,
                           first |-> wrapper.fresh]
           /\ UNCHANGED shuffle
           /\ UNCHANGED outsideGlance

NextGlance == SetShuffle \/ Construct \/ Call

SpecGlance == InitGlance /\ [][NextGlance]_vars

Next ==
    create_volume \/ ensure_export \/ delete_volume \/ discover_luns \/ Return

Spec == Init /\ [][Next]_vars

InitMap == GlanceIdle /\ DriverReady /\ FilerAsFound /\ NothingObserved

NextMap == ensure_initiator_mapped \/ ensure_initiator_unmapped \/ Return

SpecMap == InitMap /\ [][NextMap]_vars

NextAttach ==
    \/ initialize_connection
    \/ ensure_initiator_mapped
    \/ ensure_initiator_mapped_again
    \/ ensure_initiator_unmapped
    \/ Return

SpecAttach == InitMap /\ [][NextAttach]_vars

\* Creation, lookup and discovery without deletion.
NextCache == create_volume \/ create_export \/ discover_luns \/ Return

SpecCache == Init /\ [][NextCache]_vars

NextIter == enumerate_paged \/ enumerate_single

SpecIter == Init /\ [][NextIter]_vars

\* The datasets a DFM server may hold when the driver starts: with and
\* without the name prefix, with and without a value in each of the two
\* metadata fields; each has one member LUN, "v1".
FoundId(name, project, type) ==
    1 + (IF name[1] = DATASET_PREFIX THEN 0 ELSE 4)
      + (IF project = <<>> THEN 0 ELSE 2)
      + (IF type = NoType THEN 0 ELSE 1)

FoundDatasets ==
    {SrvDataset(FoundId(name, project, type), name, project, type) :
         name \in {<<DATASET_PREFIX, "a">>, <<"Backup_", "a">>},
         project \in {<<>>, <<"a">>},
         type \in {NoType, <<"gold">>}}

\* A fresh driver in front of a server that holds some of FoundDatasets.
InitDiscover ==
    /\ GlanceIdle /\ FilerEmpty /\ NothingObserved
    /\ discovered_luns = <<>>
    /\ discovered_datasets = <<>>
    /\ lun_table = EmptyLunTable
    /\ storage_service = "service"
    /\ storage_service_prefix = "prefix_"
    /\ srvDatasets \in SUBSET FoundDatasets
    /\ srvLuns = {SrvLun(d.id, d.id, ServerLunPath(d.name, "v1")) :
                      d \in srvDatasets}
    /\ nextId = [ds |-> Cardinality(FoundDatasets) + 1,
                 lun |-> Cardinality(FoundDatasets) + 1]
    /\ destroyed = {}
    /\ looked = EmptyLunTable
    /\ last = NoOp

\* A fresh driver after do_setup, for each configuration _check_flags
\* accepts: the storage service, the storage service prefix, or both.
InitDataset ==
    /\ GlanceIdle /\ FilerEmpty /\ NothingObserved
    /\ discovered_luns = <<>>
    /\ discovered_datasets = <<>>
    /\ lun_table = EmptyLunTable
    /\ storage_service \in {"", "service"}
    /\ storage_service_prefix \in {"", "prefix_"}
    /\ storage_service # "" \/ storage_service_prefix # ""
    /\ srvDatasets = {}
    /\ srvLuns = {}
    /\ nextId = [ds |-> 1, lun |-> 1]
    /\ destroyed = {}
    /\ looked = EmptyLunTable
    /\ last = NoOp

NextDataset == create_volume_of_type \/ discover_luns \/ Return

SpecDataset == InitDataset /\ [][NextDataset]_vars

\* _clone_lun has just been called; the filer has no clone operation.
InitClone ==
    /\ GlanceIdle /\ DriverReady /\ FilerEmpty
    /\ iter = NoIter /\ job = NoJob
    /\ ClientReady /\ NothingElse
    /\ \E src_path \in LunPaths, dest_path \in LunPaths, snap \in BOOLEAN :
           /\ src_path # dest_path
           /\ clone = [NoClone EXCEPT !.at = "called", !.src = src_path,
                                      !.dest = dest_path, !.snap = snap]

NextClone == clone_start \/ is_clone_done \/ clone_progress

\* The driver's thread keeps running its loop; the filer owes nothing.
SpecClone == InitClone /\ [][NextClone]_vars /\ WF_vars(is_clone_done)

\* The driver after __init__, before do_setup.
InitSetup ==
    /\ GlanceIdle /\ FilerEmpty
    /\ iter = NoIter /\ job = NoJob /\ clone = NoClone
    /\ client = "" /\ vfiler = ""
    /\ NothingElse
    /\ discovered_luns = <<>>
    /\ discovered_datasets = <<>>
    /\ lun_table = EmptyLunTable
    /\ storage_service = ""
    /\ storage_service_prefix = ""
    /\ srvDatasets = {}
    /\ srvLuns = {}
    /\ nextId = [ds |-> 1, lun |-> 1]
    /\ destroyed = {}
    /\ looked = EmptyLunTable
    /\ last = NoOp

NextSetup == do_setup \/ create_volume_after_setup \/ Return

SpecSetup == InitSetup /\ [][NextSetup]_vars

NextJob == wait_for_job

\* _wait_for_job has just been called for a job that has reported nothing.
InitPoll ==
    /\ GlanceIdle /\ DriverReady /\ FilerEmpty
    /\ iter = NoIter
    /\ clone = NoClone
    /\ ClientReady /\ NothingElse
    /\ job = Watched(<<>>, "", <<>>, <<>>, <<>>)

NextPoll == poll_job \/ job_reports

\* The driver's thread keeps running its loop; the job on the server owes
\* nothing.
SpecPoll == InitPoll /\ [][NextPoll]_vars /\ WF_vars(poll_job)

SpecJob == Init /\ [][NextJob]_vars

NextDiscover == discover_luns \/ ensure_export \/ Return

SpecDiscover == InitDiscover /\ [][NextDiscover]_vars

\* A metadata mapping as the image service receives it.
InitCodec ==
    /\ GlanceIdle /\ DriverReady /\ FilerEmpty
    /\ iter = NoIter /\ job = NoJob /\ clone = NoClone
    /\ ClientReady
    /\ cm = NoCmode
    /\ callers = NoCallers
    /\ \E metadata \in Metadatas :
           codec = Codec("metadata", metadata, NoConverted, NoConverted)

NextCodec == convert_to_string \/ convert_from_string

SpecCodec == InitCodec /\ [][NextCodec]_vars

NextCmode ==
    \/ cm_create_volume
    \/ cm_delete_volume
    \/ cm_lookup_lun_for_volume
    \/ cm_return

SpecCmode == Init /\ [][NextCmode]_vars

\* Two callers about to call create_volume on a driver that has cached no
\* dataset, serialized from outside or not.
InitConcurrent ==
    /\ GlanceIdle /\ DriverReady /\ FilerEmpty
    /\ iter = NoIter /\ job = NoJob /\ clone = NoClone
    /\ ClientReady
    /\ codec = NoCodec /\ cm = NoCmode
    /\ \E serialized \in BOOLEAN :
           callers = [serialized |-> serialized,
                      at |-> [c \in Callers |-> IdleCaller]]

NextConcurrent ==
    \/ provision_get_dataset
    \/ provision_create_dataset
    \/ provision_append_dataset
    \/ provision_member

SpecConcurrent == InitConcurrent /\ [][NextConcurrent]_vars

NextTenants ==
    create_volume_of_tenant \/ discover_luns \/ ensure_export \/ Return

SpecTenants == Init /\ [][NextTenants]_vars

NextSnapshot ==
    \/ create_volume
    \/ discover_luns
    \/ create_volume_from_snapshot
    \/ Return

SpecSnapshot == Init /\ [][NextSnapshot]_vars


(***************************************************************************)
(*                    Claims about the client wrapper                      *)
(***************************************************************************)

Called == lastCall.result # "none"

Dynamic == wrapper.kind = "dynamic"

\* The endpoint after e in the wrapper's shuffled order, cyclically.
SuccessorOf(e) ==
    LET i == CHOOSE k \in PoolIdx : wrapper.api_servers[k] = e
    IN wrapper.api_servers[(i % Len(ApiServers)) + 1]

\* C1: with retry budget n a call makes at most n+1 attempts; if attempt
\* k <= n+1 is the first that does not fail with a connection error and it
\* succeeds, the call returns normally after exactly k attempts; if all n+1
\* attempts fail with a connection error the call raises ConnectionFailed
\* after exactly n+1 attempts (with n = 0: after exactly 1 attempt).
C1_AttemptsWithinBudget ==
    Called =>
        /\ Len(lastCall.log) <= lastCall.n + 1
        /\ (lastCall.fails <= lastCall.n /\ lastCall.then = "ok") =>
               /\ lastCall.result = "ok"
               /\ Len(lastCall.log) = lastCall.fails + 1
        /\ lastCall.fails = lastCall.n + 1 =>
               /\ lastCall.result = "ConnectionFailed"
               /\ Len(lastCall.log) = lastCall.n + 1

\* test_static_client_with_retries: one failure, one retry, success.
C1_Witness ==
    /\ wrapper.kind = "static"
    /\ lastCall.n = 1 /\ lastCall.fails = 1
    /\ lastCall.result = "ok" /\ Len(lastCall.log) = 2

\* C2 as stated: in every call of a dynamic wrapper the k-th attempt goes to
\* the k-th endpoint of the shuffled order (k up to the pool size).
C2_Original ==
    (Called /\ Dynamic) =>
        \A k \in 1..Len(lastCall.log) :
            k <= Len(ApiServers) => lastCall.log[k] = wrapper.api_servers[k]

\* C2 amended: in the first call of a dynamic wrapper the k-th attempt goes
\* to the k-th endpoint of the shuffled order; in every call each connection
\* failure advances to the next endpoint of that order, so that no endpoint is
\* skipped or repeated while the attempts do not exceed the pool size.
C2_SuccessiveEndpoints ==
    (Called /\ Dynamic) =>
        /\ lastCall.first =>
               \A k \in 1..Len(lastCall.log) :
                   k <= Len(ApiServers) =>
                       lastCall.log[k] = wrapper.api_servers[k]
        /\ \A k \in 1..(Len(lastCall.log) - 1) :
               lastCall.log[k + 1] = SuccessorOf(lastCall.log[k])
        /\ Len(lastCall.log) <= Len(ApiServers) =>
               \A j, k \in 1..Len(lastCall.log) :
                   lastCall.log[j] = lastCall.log[k] => j = k

\* A later call of a dynamic wrapper that fails over to one more endpoint.
C2_Witness ==
    /\ Dynamic /\ ~lastCall.first
    /\ Len(lastCall.log) = 2 /\ lastCall.result = "ok"
    /\ lastCall.log[1] # wrapper.api_servers[1]

\* C3: a wrapper constructed with an explicit host and port makes every
\* attempt of every call against that host:port, and never selects an order
\* from the endpoint pool nor advances in it.
C3_StaticTargetOnly ==
    wrapper.kind = "static" =>
        /\ \A k \in 1..Len(lastCall.log) : lastCall.log[k] = StaticHost
        /\ wrapper.host = StaticHost
        /\ wrapper.api_servers = NoServers
        /\ wrapper.next = 1

\* A static wrapper's second call that retries after connection failures.
C3_Witness ==
    /\ wrapper.kind = "static" /\ ~lastCall.first
    /\ lastCall.fails >= 2 /\ Len(lastCall.log) >= 3

\* C4: an attempt that fails with a non-connection error ends the call with
\* that error: no retry follows it, whatever the retry budget; when it is
\* the first attempt, exactly one attempt is made.
C4_NoRetryOnOtherError ==
    (Called /\ lastCall.then = "other" /\ lastCall.fails <= lastCall.n) =>
        /\ lastCall.result = "error"
        /\ Len(lastCall.log) = lastCall.fails + 1
        /\ lastCall.fails = 0 => lastCall.log = <<wrapper.host>>

\* test_client_raises_forbidden with retries left over.
C4_Witness ==
    /\ lastCall.n >= 1 /\ lastCall.fails = 0 /\ lastCall.then = "other"
    /\ lastCall.result = "error" /\ Len(lastCall.log) = 1

\* C5 as stated: the first endpoint a dynamic wrapper contacts is the first
\* of the order produced by the shuffle in effect at its construction.
C5_Original ==
    (Called /\ Dynamic /\ lastCall.first) =>
        lastCall.log[1] = GetApiServers(wrapper.born)[1]

\* C5 amended: the endpoint order of a dynamic wrapper is selected by the
\* shuffle in effect when its first call needs an endpoint, not at
\* construction, and is kept for all later calls of that wrapper.
C5_OrderSelectedAtFirstCall ==
    [][/\ (wrapper.kind = "dynamic" /\ wrapper.fresh /\ ~wrapper'.fresh) =>
              /\ wrapper'.api_servers = GetApiServers(shuffle)
              /\ lastCall'.log[1] = GetApiServers(shuffle)[1]
       /\ (wrapper.api_servers # NoServers /\ ~wrapper'.fresh) =>
              wrapper'.api_servers = wrapper.api_servers]_vars

\* test_default_client_without_retries: client2 is constructed under
\* _fake_shuffle and first called under _fake_shuffle2.
C5_Witness ==
    /\ Dynamic /\ lastCall.first /\ lastCall.n = 0
    /\ wrapper.born = FakeShuffle
    /\ wrapper.api_servers = GetApiServers(FakeShuffle2)
    /\ lastCall.log = <<"host2:9293">>
    /\ lastCall.result = "ConnectionFailed"

(***************************************************************************)
(*                 Claims about the NetApp iSCSI driver                    *)
(***************************************************************************)

\* The calls of the last operation that are `op` with numeric argument `id`.
CallsOf(op, id) ==
    {i \in 1..Len(last.calls) : last.calls[i].op = op /\ last.calls[i].id = id}

\* The last operation ran an edit transaction and obtained a lock.
HeldLock == last.op \in {"create_volume", "delete_volume"} /\ last.lock # 0

\* C6: when DatasetProvisionMember raises after _provision acquired the edit
\* lock, DatasetEditRollback is issued for that lock id, DatasetEditCommit is
\* not issued, and create_volume raises NovaException 'Failed to provision
\* dataset member'.
C6_RollbackAndProvisioningError ==
    (/\ last.op = "create_volume"
     /\ last.lock # 0
     /\ \E i \in CallsOf("DatasetProvisionMember", last.lock) :
            ~last.calls[i].ok) =>
        /\ CallsOf("DatasetEditRollback", last.lock) # {}
        /\ \A i \in 1..Len(last.calls) : last.calls[i].op # "DatasetEditCommit"
        /\ last.exc = "NovaException: Failed to provision dataset member"

\* C7: every edit lock DatasetEditBegin handed to _provision or
\* _remove_destroy has, when the operation returns or raises, been the
\* argument of a DatasetEditCommit that returned or of a DatasetEditRollback,
\* and no call with that lock follows it.
C7_LockReleased ==
    HeldLock =>
        /\ \E i \in 1..Len(last.calls) :
              /\ last.calls[i].id = last.lock
              /\ \/ last.calls[i].op = "DatasetEditCommit" /\ last.calls[i].ok
                 \/ last.calls[i].op = "DatasetEditRollback"
              /\ \A k \in (i + 1)..Len(last.calls) :
                     last.calls[k].op \notin
                         {"DatasetProvisionMember", "DatasetRemoveMember",
                          "DatasetEditCommit", "DatasetEditRollback"}
        /\ \A i \in 1..Len(last.calls) :
               last.calls[i].op \in {"DatasetEditCommit", "DatasetEditRollback"}
                   => last.calls[i].id = last.lock

\* The commit failed and then the rollback call failed too, in a deletion.
C7_Witness ==
    /\ last.op = "delete_volume" /\ last.lock = 2
    /\ \E i \in CallsOf("DatasetEditCommit", 2) : ~last.calls[i].ok
    /\ \E i \in CallsOf("DatasetEditRollback", 2) : ~last.calls[i].ok
    /\ last.exc = "WebFault: DatasetEditRollback"

\* C8: whenever the lookup of (name, project) returns a Lun, the Lun's path
\* ends with '/' + name and its dataset's project is the requested project.
C8_LookupMatchesRequest ==
    (last.op = "ensure_export" /\ last.exc = "") =>
        /\ EndsWithName(last.ret.lunpath, last.name)
        /\ last.ret.dataset.project = last.project

\* C9: once delete_volume(name, project) has succeeded and no volume of that
\* name has been created since, the lookup of (name, project) does not
\* return the LUN that deletion destroyed.
C9_DeletedLunNotFound ==
    (last.op = "ensure_export" /\ last.exc = "") =>
        ~ \E d \in destroyed :
              /\ d.id = last.ret.id
              /\ d.name = last.name /\ d.project = last.project
              /\ \A l \in srvLuns : ~EndsWithName(l.path, last.name)
              /\ \A e \in destroyed : e.id <= d.id

\* The remote calls a create_volume makes that creates the dataset, runs one
\* edit under `lock` and polls job j polls[j] times.
RECURSIVE JobPolls(_, _)
JobPolls(polls, j) ==
    IF j > Len(polls) THEN <<>>
    ELSE [k \in 1..polls[j] |-> RemoteCall("DpJobProgress", j, <<>>, TRUE)]
         \o JobPolls(polls, j + 1)

EndToEndCalls(dataset, lock, polls) ==
    <<RemoteCall("StorageServiceDatasetProvision", 0, dataset.name, TRUE),
      RemoteCall("DatasetEditBegin", dataset.id, <<>>, TRUE),
      RemoteCall("DatasetProvisionMember", lock, <<>>, TRUE),
      RemoteCall("DatasetEditCommit", lock, <<>>, TRUE)>>
    \o JobPolls(polls, 1)

\* C10: a create_volume(name, P) without storage class that starts with no
\* cached dataset for P and succeeds has made exactly these calls: one
\* StorageServiceDatasetProvision for the canonical dataset name of P, one
\* edit transaction, the polls of each job up to its job-end; and the lookup
\* of (name, P) then returns a Lun with the id and path of the lun-create
\* event.
C10_EndToEndCreate ==
    (/\ last.op = "create_volume" /\ last.exc = ""
     /\ last.ss_type = NoType /\ ~last.cached) =>
        LET dataset == GetDataset(discovered_datasets,
                                  <<DATASET_PREFIX>> \o Underscored(last.project))
            found == LookupLunForVolume(last.name, last.project)
        IN /\ dataset # NoDataset
           /\ last.calls = EndToEndCalls(dataset, last.lock, last.polls)
           /\ found.exc = ""
           /\ last.event.lun_id # 0
           /\ found.lun.id = last.event.lun_id
           /\ found.lun.lunpath = last.event.lunpath

\* Such a create of a volume of the hyphenated project, the job reporting
\* its end at the second poll, as the second LUN of the server.
C10_Witness ==
    /\ last.op = "create_volume" /\ last.exc = "" /\ ~last.cached
    /\ last.project = <<"a", "-", "b">>
    /\ last.polls = <<2>>
    /\ last.event.lun_id = 2
    /\ Len(last.calls) = 6

(***************************************************************************)
(*                      Claims about LUN masking                           *)
(***************************************************************************)

\* The requests named `request` among `calls`.
Requests(calls, request) ==
    {i \in 1..Len(calls) : calls[i].request = request}

\* The igroups of the filer that are the driver's and hold the initiator.
OwnIgroupsOf(initiator_name) ==
    {i \in 1..Len(igroups) :
        /\ igroups[i].type = "iscsi" /\ igroups[i].os = "linux"
        /\ igroups[i].name # <<>> /\ igroups[i].name[1] = IGROUP_PREFIX
        /\ initiator_name \in igroups[i].initiators}

\* The LUN is mapped to an igroup of the driver that holds the initiator.
MappedToOwn(lunpath, initiator_name) ==
    \E i \in OwnIgroupsOf(initiator_name) :
        \E m \in lunMaps :
            m.igroup = igroups[i].name /\ m.path = VolPath(lunpath)

\* C11: an _ensure_initiator_mapped repeated with the same arguments on the
\* filer as the first one left it issues no lun-map and returns the same LUN
\* number, so the two issue one lun-map in total when the LUN was not mapped
\* before; and from any state of the filer, a LUN already mapped to the
\* initiator's igroup gets its existing number without a lun-map request.
C11_IdempotentAttach ==
    /\ (last.op = "ensure_initiator_mapped" /\ last.exc = "") =>
           LET again == EnsureInitiatorMapped(last.lunpath, last.initiator,
                                              "none")
           IN /\ again.exc = ""
              /\ again.ret = last.ret
              /\ Requests(again.calls, "lun-map") = {}
              /\ again.maps = lunMaps /\ again.igroups = igroups
              /\ Cardinality(Requests(last.calls, "lun-map")) <= 1
    /\ last = NoOp =>
           \A lunpath \in LunPaths, initiator_name \in Initiators :
               LET first == EnsureInitiatorMapped(lunpath, initiator_name,
                                                  "none")
               IN IF MappedToOwn(lunpath, initiator_name)
                  THEN /\ first.exc = ""
                       /\ Requests(first.calls, "lun-map") = {}
                       /\ \E m \in lunMaps :
                              /\ m.path = VolPath(lunpath)
                              /\ m.lun_num = first.ret
                              /\ \E i \in OwnIgroupsOf(initiator_name) :
                                     igroups[i].name = m.igroup
                  ELSE first.exc = "" =>
                           Cardinality(Requests(first.calls, "lun-map")) = 1

\* An attach that mapped a LUN as the second one of an existing igroup.
C11_Witness ==
    /\ last.op = "ensure_initiator_mapped" /\ last.exc = ""
    /\ last.ret = 1
    /\ Requests(last.calls, "lun-map") # {}
    /\ Requests(last.calls, "igroup-create") = {}

\* C12: _ensure_initiator_unmapped issues lun-unmap exactly when an igroup
\* of the driver holding the initiator exists and the LUN is mapped to it;
\* otherwise it issues no mutating request; a detach repeated after a
\* successful one issues no lun-unmap.
C12_IdempotentDetach ==
    /\ last = NoOp =>
           \A lunpath \in LunPaths, initiator_name \in Initiators,
              fail \in MapRequests \cup {"none"} :
               LET r == EnsureInitiatorUnmapped(lunpath, initiator_name, fail)
               IN /\ Requests(r.calls, "lun-unmap") # {} =>
                         MappedToOwn(lunpath, initiator_name)
                  /\ (fail = "none" /\ MappedToOwn(lunpath, initiator_name))
                         => Cardinality(Requests(r.calls, "lun-unmap")) = 1
                  /\ \A i \in 1..Len(r.calls) :
                         r.calls[i].request \in
                             {"igroup-list-info", "lun-map-list-info",
                              "lun-unmap"}
    /\ (last.op = "ensure_initiator_unmapped" /\ last.exc = "") =>
           LET again == EnsureInitiatorUnmapped(last.lunpath, last.initiator,
                                                "none")
           IN /\ again.exc = ""
              /\ Requests(again.calls, "lun-unmap") = {}
              /\ again.maps = lunMaps

\* A detach that unmapped p1 from the driver's igroup of iqn1 while p1 stays
\* mapped to the igroup without the prefix, which also holds iqn1.
C12_Witness ==
    /\ last.op = "ensure_initiator_unmapped" /\ last.exc = ""
    /\ last.lunpath = "p1" /\ last.initiator = "iqn1"
    /\ Requests(last.calls, "lun-unmap") # {}
    /\ LunMap(ManualIgroup.name, VolPath("p1"), 0) \in lunMaps

\* C13: no _ensure_initiator_unmapped changes the filer's igroups or issues
\* a request that would: the igroups after it are the igroups before it.
C13_DetachKeepsIgroups ==
    [][(last = NoOp /\ last'.op = "ensure_initiator_unmapped") =>
           /\ igroups' = igroups
           /\ \A i \in 1..Len(last'.calls) :
                  last'.calls[i].request \notin
                      {"igroup-create", "igroup-add", "igroup-destroy"}]_vars

\* A detach that removed the only mapping of the igroup an attach had
\* created: the igroup is still there, with its initiator.
C13_Witness ==
    /\ last.op = "ensure_initiator_unmapped" /\ last.exc = ""
    /\ last.initiator = "iqn2"
    /\ Requests(last.calls, "lun-unmap") # {}
    /\ \E i \in 1..Len(igroups) :
           /\ igroups[i] = Igroup(<<IGROUP_PREFIX, "iqn2">>, "iscsi", "linux",
                                  {"iqn2"})
           /\ \A m \in lunMaps : m.igroup # igroups[i].name

(***************************************************************************)
(*                 Claims about the iteration protocol                     *)
(***************************************************************************)

\* The calls of the last enumeration that are step `step`.
IterSteps(step) == {i \in 1..Len(iter.calls) : iter.calls[i].step = step}

\* C14: when ...IterStart returned a tag, ...IterEnd is issued exactly once,
\* with that tag, as the last call of the enumerating function, whether the
\* ...IterNext calls returned or one of them raised; every ...IterNext
\* carries the same tag; no ...IterEnd is issued when ...IterStart raised.
C14_IterationClosed ==
    iter.fn # "none" =>
        /\ iter.calls # <<>> /\ iter.calls[1].step = "Start"
        /\ IterSteps("Start") = {1}
        /\ IF iter.calls[1].ok
           THEN /\ IterSteps("End") = {Len(iter.calls)}
                /\ \A i \in 2..Len(iter.calls) :
                       /\ iter.calls[i].tag = iter.tag
                       /\ iter.calls[i].iter = iter.fn
                /\ \A i \in IterSteps("Next") :
                       ~iter.calls[i].ok => i = Len(iter.calls) - 1
           ELSE Len(iter.calls) = 1

\* The member enumeration of a dataset whose second ...IterNext raised, with
\* tag 2: the ...IterEnd follows.
C14_Witness ==
    /\ iter.fn = "DatasetMemberListInfoIter" /\ iter.tag = 2
    /\ Len(iter.calls) = 4
    /\ ~iter.calls[3].ok
    /\ iter.calls[4] = IterCall("DatasetMemberListInfoIter", "End", 2, TRUE)
    /\ iter.exc = "WebFault: DatasetMemberListInfoIterNext"

(***************************************************************************)
(*                    Claims about the discovery cache                     *)
(***************************************************************************)

\* The step is a lookup through `op`.
Looks(op) == last = NoOp /\ last'.op = op

\* C15 as stated: once a lookup of a name has scanned discovered_luns and
\* put its hit into lun_table, every later lookup of that name returns that
\* Lun without a scan.
C15_Original ==
    [][(Looks("create_export") /\ looked[last'.name] # NoLun) =>
           /\ last'.exc = ""
           /\ last'.scanned = 0
           /\ last'.ret = looked[last'.name]]_vars

\* C15: a lookup of a name that is in lun_table returns the entry without
\* scanning discovered_luns and changes nothing; a successful lookup of a
\* name that is not scans discovered_luns once and stores its hit, an
\* element of discovered_luns, under the name; and an entry of lun_table
\* stays as it is until a discovery pass empties lun_table or a
\* create_volume of that name replaces it.
C15_LookupCaching ==
    [][/\ Looks("create_export") =>
              IF lun_table[last'.name] # NoLun
              THEN /\ last'.exc = "" /\ last'.scanned = 0
                   /\ last'.ret = lun_table[last'.name]
                   /\ lun_table' = lun_table
              ELSE last'.exc = "" =>
                       /\ last'.scanned = 1
                       /\ \E i \in 1..Len(discovered_luns) :
                              discovered_luns[i] = last'.ret
                       /\ lun_table' =
                              [lun_table EXCEPT ![last'.name] = last'.ret]
       /\ \A n \in Names :
              (lun_table[n] # NoLun /\ lun_table'[n] # lun_table[n]) =>
                  \/ last'.op = "discover_luns" /\ last'.exc = ""
                  \/ last'.op = "create_volume" /\ last'.name = n]_vars

\* A lookup served from lun_table with the Lun an earlier lookup of the name
\* had found by a scan.
C15_Witness ==
    /\ last.op = "create_export" /\ last.exc = ""
    /\ last.scanned = 0
    /\ last.ret # NoLun
    /\ last.ret = looked[last.name]

\* The cached Lun `lun` is the volume `name` of `project`.
IsVolume(lun, name, project) ==
    /\ lun # NoLun
    /\ lun.dataset.project = project
    /\ EndsWithName(lun.lunpath, name)

\* Neither discovered_luns nor lun_table holds the volume `name` of
\* `project`.
NotCached(name, project) ==
    /\ \A i \in 1..Len(discovered_luns) :
           ~IsVolume(discovered_luns[i], name, project)
    /\ \A n \in Names : ~IsVolume(lun_table[n], name, project)

\* C16: when no cached Lun matches (name, project), the lookup raises
\* not-found after one scan of discovered_luns, issues no remote call and
\* leaves discovered_luns, discovered_datasets and lun_table unchanged.
C16_UnknownName ==
    [][(Looks("ensure_export") /\ NotCached(last'.name, last'.project)) =>
           /\ last'.exc = "NovaException: No entry in LUN table for volume"
           /\ last'.scanned = 1
           /\ last'.calls = <<>>
           /\ UNCHANGED <<discovered_luns, discovered_datasets,
                          lun_table>>]_vars

\* The server's dataset `d` is one _discover_luns keeps.
Kept(d) == d.name # <<>> /\ d.name[1] = "OpenStack_" /\ d.project # <<>>

\* The server's LUNs that are members of a kept dataset.
KeptLuns == {l \in srvLuns : \E d \in srvDatasets : Kept(d) /\ l.dataset = d.id}

\* C17: after a discovery pass that completed, discovered_datasets holds one
\* record for each dataset the server listed and the pass kept, and nothing
\* else, discovered_luns holds one record for each member the server listed
\* for those datasets, and nothing else, and lun_table is empty.
C17_DiscoveryReplaces ==
    (last.op = "discover_luns" /\ last.exc = "") =>
        /\ \A n \in Names : lun_table[n] = NoLun
        /\ Len(discovered_datasets) =
               Cardinality({d \in srvDatasets : Kept(d)})
        /\ \A i \in 1..Len(discovered_datasets) :
               /\ \E d \in srvDatasets :
                      /\ Kept(d)
                      /\ discovered_datasets[i] =
                             [id |-> d.id, name |-> d.name,
                              project |-> d.project, type |-> d.type]
               /\ \A j \in 1..Len(discovered_datasets) :
                      discovered_datasets[j].id = discovered_datasets[i].id
                          => j = i
        /\ Len(discovered_luns) = Cardinality(KeptLuns)
        /\ \A i \in 1..Len(discovered_luns) :
               /\ \E l \in KeptLuns :
                      /\ discovered_luns[i].id = l.id
                      /\ discovered_luns[i].lunpath = l.path
                      /\ discovered_luns[i].dataset.id = l.dataset
               /\ \E k \in 1..Len(discovered_datasets) :
                      discovered_luns[i].dataset = discovered_datasets[k]
               /\ \A j \in 1..Len(discovered_luns) :
                      discovered_luns[j].id = discovered_luns[i].id => j = i

\* A discovery pass completed and listed a LUN, after another LUN had been
\* destroyed.
C17_Witness ==
    /\ last.op = "discover_luns" /\ last.exc = ""
    /\ Len(discovered_luns) > 0
    /\ destroyed # {}

\* The datasets and the LUNs that are in the cache, by id.
CachedDatasetIds ==
    {discovered_datasets[i].id : i \in 1..Len(discovered_datasets)}

CachedLunIds ==
    {discovered_luns[i].id : i \in 1..Len(discovered_luns)}
        \cup {lun_table[n].id : n \in {m \in Names : lun_table[m] # NoLun}}

\* The datasets _discover_luns has listed LUNs of are those in
\* `owned`, and no LUN of another dataset is in the cache.
FilteredBy(owned) ==
    /\ (last.op = "discover_luns" /\ last.exc = "") =>
           /\ CachedDatasetIds = {d.id : d \in owned}
           /\ CachedLunIds = {l.id : l \in {m \in srvLuns :
                                  \E d \in owned : m.dataset = d.id}}
    /\ \A l \in srvLuns :
           l.id \in CachedLunIds => \E d \in owned : l.dataset = d.id

\* C18 as stated: discovery keeps a dataset of the server, and lists its
\* LUNs, if and only if its name starts with 'OpenStack_' and its metadata
\* has both the project and the volume-type field; LUNs of other datasets
\* never enter the cache.
C18_Original ==
    FilteredBy({d \in srvDatasets :
                    /\ d.name[1] = "OpenStack_"
                    /\ d.project # <<>>
                    /\ d.type # <<>>})

\* C18: discovery keeps a dataset of the server, and lists its LUNs, if and
\* only if its name starts with 'OpenStack_' and its metadata has a project
\* field with a value, whether or not it has a volume-type field; LUNs of
\* other datasets never enter the cache.
C18_OwnershipFilter ==
    FilteredBy({d \in srvDatasets :
                    d.name[1] = "OpenStack_" /\ d.project # <<>>})

\* A discovery pass completed that kept a dataset without a volume-type
\* field and passed over a dataset without the prefix and one without a
\* project.
C18_Witness ==
    /\ last.op = "discover_luns" /\ last.exc = ""
    /\ \E d \in srvDatasets : d.type = <<>> /\ d.id \in CachedDatasetIds
    /\ \E d \in srvDatasets :
           d.name[1] # "OpenStack_" /\ d.project # <<>> /\ d.type # <<>>
    /\ \E d \in srvDatasets : d.name[1] = "OpenStack_" /\ d.project = <<>>

(***************************************************************************)
(*                     Claims about dataset creation                       *)
(***************************************************************************)

\* No cached dataset has the canonical name of (project, ss_type).
Absent(project, ss_type) ==
    \A i \in 1..Len(discovered_datasets) :
        discovered_datasets[i].name # DatasetName(project, ss_type)

\* The dataset-create calls among `calls`.
DatasetCreates(calls) ==
    {k \in 1..Len(calls) : calls[k].op = "StorageServiceDatasetProvision"}

\* The storage service a dataset for ss_type is created with is configured.
Configured(ss_type) ==
    IF ss_type = <<>> THEN storage_service # ""
    ELSE storage_service_prefix # ""

\* A create_volume step made dataset-create calls exactly if `needed`; one
\* that returned was the only one, for a name the server did not have, and
\* put the dataset at the end of discovered_datasets; without one that
\* returned, discovered_datasets is as before. No two cached datasets and no
\* two datasets of the server share a name.
CreatesDatasetIf(needed) ==
    LET calls == last'.calls
        name == DatasetName(last'.project, last'.ss_type)
        new == discovered_datasets'[Len(discovered_datasets')]
    IN /\ DatasetCreates(calls) # {} <=> needed
       /\ Cardinality(DatasetCreates(calls)) <= 1
       /\ IF \E k \in DatasetCreates(calls) : calls[k].ok
          THEN /\ \A d \in srvDatasets : d.name # name
               /\ Len(discovered_datasets') = Len(discovered_datasets) + 1
               /\ SubSeq(discovered_datasets', 1, Len(discovered_datasets))
                      = discovered_datasets
               /\ new.name = name
               /\ new.project = last'.project
               /\ new.type = last'.ss_type
               /\ \E d \in srvDatasets' : d.id = new.id /\ d.name = name
          ELSE discovered_datasets' = discovered_datasets
       /\ \A i, j \in 1..Len(discovered_datasets') :
              discovered_datasets'[i].name = discovered_datasets'[j].name
                  => i = j
       /\ \A d, e \in srvDatasets' : d.name = e.name => d = e

C20_JobErrors ==
    LET errors ==
            {<<k, i>> \in (1..Len(job.polls)) \X (1..MaxEvents) :
                 /\ i <= Len(job.polls[k])
                 /\ job.polls[k][i].EventStatus = "error"}
    IN job.polls # <<>> =>
           /\ errors # {} =>
                  \E e \in errors :
                      job.exc = "NovaException: Job failed: "
                                    \o job.polls[e[1]][e[2]].ErrorMessage
           /\ job.exc = "" =>
                  /\ errors = {}
                  /\ job.events = job.polls[Len(job.polls)]
                  /\ \E i \in 1..Len(job.events) :
                         job.events[i].EventType = "job-end"

(***************************************************************************)
(*                  Claims about the provisioning jobs                     *)
(***************************************************************************)

\* Every job of the create step was polled to its job-end and none reported
\* a lun-create event.
AllJobsEndedEmpty(op) ==
    /\ op.kinds # <<>>
    /\ \A j \in 1..Len(op.kinds) : op.kinds[j] = "ended"
    /\ \A i \in 1..Len(op.calls) : op.calls[i].ok

\* C21: when all provision jobs of a create reach job-end without a
\* lun-create event, _provision raises NovaException 'No LUN was created by
\* the provision job' and adds no Lun to discovered_luns or lun_table.
C21_NoLunCreated ==
    [][(Looks("create_volume") /\ AllJobsEndedEmpty(last')) =>
           /\ last'.exc =
                  "NovaException: No LUN was created by the provision job"
           /\ UNCHANGED <<discovered_luns, lun_table>>]_vars

\* A create whose edit was committed and whose job ended at its second poll
\* without a lun-create event, after an earlier volume had been created.
C21_Witness ==
    /\ last.op = "create_volume"
    /\ AllJobsEndedEmpty(last)
    /\ last.polls = <<2>>
    /\ last.exc = "NovaException: No LUN was created by the provision job"
    /\ Len(discovered_luns) > 0

\* The event list holds a job-end event or an event with error status.
HasEndOrError(events) ==
    \E i \in 1..Len(events) :
        events[i].EventType = "job-end" \/ events[i].EventStatus = "error"

\* No remote call of the wait raised.
PollsReturned == \A i \in 1..Len(job.calls) : job.calls[i].ok

\* C22: _wait_for_job polls again for as long as the polls return event
\* lists with neither a job-end nor an error event, however many that are;
\* it returns or raises in the first poll whose events hold one; so a wait
\* whose polls return ends only by such a poll, and ends once the job has
\* reported a job-end or an error.
C22_PollingTermination ==
    /\ [](PollsReturned =>
              /\ Len(job.calls) = Len(job.polls)
              /\ \A k \in 1..Len(job.polls) :
                     HasEndOrError(job.polls[k]) =>
                         WaitOver /\ k = Len(job.polls)
              /\ WaitOver =>
                     /\ job.polls # <<>>
                     /\ HasEndOrError(job.polls[Len(job.polls)]))
    /\ (HasEndOrError(job.report) ~> WaitOver)

\* The wait returned at its third poll, after MaxSleeps polls that found
\* neither a job-end nor an error.
C22_Witness ==
    /\ WaitOver /\ job.exc = ""
    /\ PollsReturned
    /\ Len(job.polls) = MaxSleeps + 1
    /\ job.events = job.report

(***************************************************************************)
(*                         Claims about cloning                            *)
(***************************************************************************)

\* The clone-list-status requests made so far that passed.
StatusAnswers ==
    {i \in 1..Len(clone.calls) :
         clone.calls[i].request = "clone-list-status" /\ clone.calls[i].ok}

\* C23: after a clone-start that passed, _clone_lun returns only when a
\* clone-list-status request for the clone-op-id of the clone-start
\* response was answered with clone-state 'completed', and that request is
\* its last; after every other answer that passed (no status, 'running',
\* 'failed') it polls again, so that while no request is answered
\* 'completed' it neither returns nor raises; and once the operation is
\* completed on the filer the loop ends.
C23_ClonePolling ==
    /\ [](/\ \A i \in StatusAnswers :
                /\ clone.calls[i].op_id = clone.op_id
                /\ clone.calls[1] = CloneCall("clone-start", 0, "", TRUE)
                /\ clone.calls[i].answer = "completed" =>
                       clone.at = "returned" /\ i = Len(clone.calls)
                /\ clone.calls[i].answer # "completed" =>
                       \/ clone.at = "polling"
                       \/ i < Len(clone.calls)
          /\ clone.at = "returned" =>
                 /\ Len(clone.calls) \in StatusAnswers
                 /\ clone.calls[Len(clone.calls)].answer = "completed"
          /\ clone.at = "raised" => ~clone.calls[Len(clone.calls)].ok)
    /\ ((clone.at = "polling" /\ clone.filer[clone.op_id] = "completed")
            ~> clone.at # "polling")

\* _clone_lun returned at its third status request, after one without a
\* status and one that reported 'running'.
C23_Witness ==
    /\ clone.at = "returned"
    /\ Len(clone.calls) = 4
    /\ clone.calls[2].answer = "" /\ clone.calls[2].ok
    /\ clone.calls[3].answer = "running"
    /\ clone.op_id = 2

(***************************************************************************)
(*                        Claims about deletion                            *)
(***************************************************************************)

\* The Luns in the driver's cache.
CachedLuns ==
    {discovered_luns[i] : i \in 1..Len(discovered_luns)}
        \cup {lun_table[n] : n \in Names}

\* C24: delete_volume first resolves the LUN in the local cache, without a
\* remote call; then it issues DatasetEditBegin on the Lun's dataset,
\* DatasetRemoveMember with Destroy for the Lun's id under the lock, and
\* DatasetEditCommit under the lock, in that order, each only after the
\* one before returned; when the lookup fails it issues no remote call and
\* holds no lock.
C24_DeletionOrder ==
    [][Looks("delete_volume") =>
           LET calls == last'.calls
               lun == last'.ret
           IN IF lun = NoLun
              THEN /\ last'.exc =
                          "NovaException: No entry in LUN table for volume"
                   /\ calls = <<>>
                   /\ last'.lock = 0
                   /\ lun_table[last'.name] = NoLun
              ELSE /\ lun \in CachedLuns
                   /\ Len(calls) >= 1
                   /\ calls[1].op = "DatasetEditBegin"
                   /\ calls[1].id = lun.dataset.id
                   /\ Len(calls) >= 2 =>
                          /\ calls[1].ok
                          /\ calls[2].op = "DatasetRemoveMember"
                          /\ calls[2].id = last'.lock
                          /\ calls[2].member = lun.id
                          /\ calls[2].destroy
                   /\ \A k \in 3..Len(calls) :
                          calls[k].op = "DatasetEditCommit" =>
                              /\ k = 3
                              /\ calls[2].ok
                              /\ calls[3].id = last'.lock
                   /\ \A k \in 2..Len(calls) :
                          calls[k].op # "DatasetEditBegin"
                   /\ \A k \in 3..Len(calls) :
                          calls[k].op # "DatasetRemoveMember"
                   /\ last'.exc = "" =>
                          /\ Len(calls) = 3
                          /\ calls[3].op = "DatasetEditCommit"
                          /\ calls[3].ok]_vars

\* A deletion under lock 2 that made its three calls and destroyed the
\* second LUN of the server.
C24_Witness ==
    /\ last.op = "delete_volume" /\ last.exc = ""
    /\ last.lock = 2
    /\ Len(last.calls) = 3
    /\ last.ret.id = 2
    /\ \E d \in destroyed : d.id = 2

(***************************************************************************)
(*                     Claims about the configuration                      *)
(***************************************************************************)

\* The exceptions _check_flags raises.
ConfigurationErrors ==
    {"NovaException: netapp_wsdl_url is not set",
     "NovaException: netapp_login is not set",
     "NovaException: netapp_password is not set",
     "NovaException: netapp_server_hostname is not set",
     "NovaException: netapp_server_port is not set",
     "NovaException: Either netapp_storage_service or netapp_storage_service_prefix must be set"}

\* C25: whenever one of the five required flags is unset or neither
\* netapp_storage_service nor netapp_storage_service_prefix is set, do_setup
\* raises a configuration error without having created the client or made
\* a remote access; and when it raises one, client, storage service, prefix
\* and vfiler are as they were.
C25_EagerCheck ==
    [][Looks("do_setup") =>
           LET FLAGS == last'.flags
               incomplete ==
                   \/ \E f \in {"netapp_wsdl_url", "netapp_login",
                                "netapp_password", "netapp_server_hostname",
                                "netapp_server_port"} : FLAGS[f] = ""
                   \/ /\ FLAGS["netapp_storage_service"] = ""
                      /\ FLAGS["netapp_storage_service_prefix"] = ""
           IN /\ incomplete <=> last'.exc \in ConfigurationErrors
              /\ last'.exc \in ConfigurationErrors =>
                     /\ last'.calls = <<>>
                     /\ UNCHANGED <<client, storage_service,
                                    storage_service_prefix, vfiler>>
                     /\ client = ""]_vars

\* do_setup raised because neither storage service flag was set, all five
\* required flags and the vfiler being set.
C25_Witness ==
    /\ last.op = "do_setup"
    /\ last.exc = "NovaException: Either netapp_storage_service or netapp_storage_service_prefix must be set"
    /\ last.flags["netapp_server_port"] # ""
    /\ last.flags["netapp_vfiler"] # ""
    /\ client = "" /\ storage_service = "" /\ vfiler = ""

(***************************************************************************)
(*                   Claims about resolving the igroup                     *)
(***************************************************************************)

\* The igroup `g` of the filer is one the driver takes for the initiator.
TakenFor(g, initiator_name) ==
    /\ g.type = "iscsi" /\ g.os = "linux"
    /\ g.name # <<>> /\ g.name[1] = "openstack-"
    /\ initiator_name \in g.initiators

\* C26: every _ensure_initiator_mapped and _ensure_initiator_unmapped
\* issues igroup-list-info as its first request, before any igroup-create,
\* lun-map or lun-unmap; the igroup named in its lun-map or lun-unmap is the
\* first one the filer lists now that the driver takes for the initiator,
\* or, when the filer lists none, the one the igroup-create of the same
\* execution made.
C26_IgroupsNotCached ==
    [][(/\ last = NoOp
        /\ last'.op \in {"ensure_initiator_mapped",
                         "ensure_initiator_unmapped"}) =>
           LET calls == last'.calls
               listed(i) == TakenFor(igroups[i], last'.initiator)
           IN /\ Len(calls) >= 1
              /\ calls[1].request = "igroup-list-info"
              /\ \A k \in 2..Len(calls) :
                     calls[k].request # "igroup-list-info"
              /\ \A k \in 1..Len(calls) :
                     /\ calls[k].request = "igroup-create" =>
                            /\ last'.op = "ensure_initiator_mapped"
                            /\ calls[1].ok
                            /\ \A i \in 1..Len(igroups) : ~listed(i)
                     /\ calls[k].request \in {"lun-map", "lun-unmap"} =>
                            /\ calls[1].ok
                            /\ \/ \E i \in 1..Len(igroups) :
                                      /\ listed(i)
                                      /\ \A m \in 1..(i - 1) : ~listed(m)
                                      /\ igroups[i].name = calls[k].igroup
                               \/ /\ \A i \in 1..Len(igroups) : ~listed(i)
                                  /\ \E j \in 2..(k - 1) :
                                         /\ calls[j].request = "igroup-create"
                                         /\ calls[j].ok
                                         /\ calls[j].igroup = calls[k].igroup]_vars

\* An attach of iqn2 that mapped p2 to the igroup the filer listed for it,
\* the third igroup of the filer, without creating one.
C26_Witness ==
    /\ last.op = "ensure_initiator_mapped" /\ last.exc = ""
    /\ last.initiator = "iqn2" /\ last.lunpath = "p2"
    /\ Len(last.calls) = 3
    /\ last.calls[3].request = "lun-map"
    /\ Len(igroups) >= 3
    /\ last.calls[3].igroup = igroups[3].name


(***************************************************************************)
(* C27                                                                     *)
(***************************************************************************)

\* The recognized keys of the metadata's properties.
Recognized(metadata) == DOMAIN metadata.properties \cap ConvertProps

\* Every recognized key present holds a sequence of mapping records.
HoldsRecords(metadata) ==
    \A k \in Recognized(metadata) : metadata.properties[k].kind = "records"

\* C27: for every metadata mapping whose recognized keys hold ordered
\* sequences of flat scalar-valued records, _convert_from_string applied to
\* what _convert_to_string returned raises nothing and returns a mapping
\* equal to the original; the converted mapping holds a string under each
\* recognized key.
C27_RoundTrip ==
    (codec.at = "restored" /\ HoldsRecords(codec.metadata)) =>
        /\ codec.converted.exc = ""
        /\ \A k \in Recognized(codec.metadata) :
               codec.converted.metadata.properties[k].kind = "string"
        /\ codec.restored.exc = ""
        /\ codec.restored.metadata = codec.metadata

\* A mapping with two records under 'mappings', one of them with the string
\* '1' and one with the number 1, has gone both ways and was changed on
\* the way.
C27_Witness ==
    /\ codec.at = "restored"
    /\ HoldsRecords(codec.metadata)
    /\ "mappings" \in DOMAIN codec.metadata.properties
    /\ "block_device_mapping" \in DOMAIN codec.metadata.properties
    /\ LET rs == codec.metadata.properties["mappings"].records
       IN /\ Len(rs) = 2
          /\ DOMAIN rs[1] = {"device", "virtual"}
          /\ rs[1]["device"] = Scalar("str", "1")
          /\ rs[1]["virtual"] = Scalar("int", "1")
    /\ codec.converted.metadata # codec.metadata
    /\ codec.restored.metadata = codec.metadata

(***************************************************************************)
(* C28                                                                     *)
(***************************************************************************)

\* The top-level fields and the keys of the properties are those of before.
SameShape(before, after) ==
    /\ after.name = before.name
    /\ after.has_properties = before.has_properties
    /\ DOMAIN after.properties = DOMAIN before.properties

\* What _convert_from_string was applied to.
DecodedFrom ==
    IF codec.at = "restored" THEN codec.converted.metadata ELSE codec.metadata

\* C28: _convert_to_string raises nothing, keeps the top-level fields and
\* the keys of the properties, and changes the value of a property exactly
\* when its key is recognized and it holds a sequence of records, which
\* becomes a string; _convert_from_string, where it returns, keeps the
\* top-level fields and the keys of the properties and leaves unchanged
\* every value but a string under a recognized key.
C28_PassThrough ==
    /\ codec.at \in {"converted", "restored"} =>
        /\ codec.converted.exc = ""
        /\ SameShape(codec.metadata, codec.converted.metadata)
        /\ \A k \in DOMAIN codec.metadata.properties :
               IF k \in ConvertProps
                  /\ codec.metadata.properties[k].kind = "records"
               THEN codec.converted.metadata.properties[k].kind = "string"
               ELSE codec.converted.metadata.properties[k]
                        = codec.metadata.properties[k]
    /\ (codec.at \in {"parsed", "restored"} /\ codec.restored.exc = "") =>
        /\ SameShape(DecodedFrom, codec.restored.metadata)
        /\ \A k \in DOMAIN DecodedFrom.properties :
               (k \notin ConvertProps
                \/ DecodedFrom.properties[k].kind # "string") =>
                   codec.restored.metadata.properties[k]
                       = DecodedFrom.properties[k]

\* A mapping with a number under 'mappings', a record under
\* 'block_device_mapping' and another property has gone both ways: the
\* number and the other property went through both conversions unchanged,
\* the record did not.
C28_Witness ==
    /\ codec.at = "restored"
    /\ codec.restored.exc = ""
    /\ DOMAIN codec.metadata.properties
           = {"mappings", "block_device_mapping", "prop1"}
    /\ codec.metadata.properties["mappings"] = Number("5")
    /\ codec.metadata.properties["block_device_mapping"].kind = "records"
    /\ codec.metadata.properties["block_device_mapping"].records # <<>>
    /\ codec.converted.metadata.properties["mappings"] = Number("5")
    /\ codec.converted.metadata.properties["prop1"] = Word("propvalue1")
    /\ codec.converted.metadata.properties["block_device_mapping"].kind
           = "string"
    /\ codec.restored.metadata.properties["mappings"] = Number("5")
    /\ codec.restored.metadata.properties["prop1"] = Word("propvalue1")

(***************************************************************************)
(* C29                                                                     *)
(***************************************************************************)

\* The errors _create_dataset raises for a flag that is not set.
MissingFlagErrors ==
    {"NovaException: volume_type without netapp_storage_service_prefix",
     "NovaException: netapp_storage_service not set"}

\* C29: once do_setup has succeeded (the client exists), no create_volume,
\* of a volume with or without a volume type, raises because a flag is not
\* set.
C29_NoLateConfigurationError ==
    [][(Looks("create_volume") /\ client # "") =>
           last'.exc \notin MissingFlagErrors]_vars

(***************************************************************************)
(* C30                                                                     *)
(***************************************************************************)

\* self.luns holds, at position i, a LUN whose path ends with '/' + name
\* and whose cluster and vserver are those of location.
CmFinds(i, name, location) ==
    /\ i \in 1..Len(cm.luns)
    /\ EndsWithName(cm.luns[i].path, name)
    /\ cm.luns[i].location.cluster = location.cluster
    /\ cm.luns[i].location.vserver = location.vserver

\* C30: a C-mode _lookup_lun_for_volume(name, location) that misses
\* lun_table and whose scan of self.luns meets a LUN with the path suffix
\* and the cluster and vserver asked for returns that LUN and has stored it
\* in lun_table[name].
C30_LookupPopulatesTable ==
    [][(/\ cm.last = NoCmOp
        /\ cm'.last.op = "_lookup_lun_for_volume"
        /\ cm.lun_table[cm'.last.name] = NoCmLun
        /\ \E i \in 1..Len(cm.luns) :
               CmFinds(i, cm'.last.name, cm'.last.location)) =>
           /\ cm'.last.exc = ""
           /\ \E i \in 1..Len(cm.luns) :
                  /\ CmFinds(i, cm'.last.name, cm'.last.location)
                  /\ cm'.last.lun = cm.luns[i]
           /\ cm'.lun_table[cm'.last.name] = cm'.last.lun]_vars

(***************************************************************************)
(* C31                                                                     *)
(***************************************************************************)

\* The step is a call of op of the C-mode driver.
CmLooks(op) == cm.last = NoCmOp /\ cm'.last.op = op

\* C31: a C-mode delete_volume of a volume that create_volume filed in
\* lun_table runs the 'Remove CM Lun' workflow and, when it raises nothing,
\* has removed the LUN from self.luns and from self.lun_table.
C31_CmodeDeletion ==
    [][(CmLooks("delete_volume")
        /\ cm.lun_table[cm'.last.name] # NoCmLun) =>
           /\ \E i \in 1..Len(cm'.last.calls) :
                  cm'.last.calls[i]
                      = CmCall("executeWorkflow", "Remove CM Lun", NoAnswer)
           /\ cm'.last.exc = "" =>
                  /\ cm'.lun_table[cm'.last.name] = NoCmLun
                  /\ \A i \in 1..Len(cm'.luns) :
                         cm'.luns[i] # cm.lun_table[cm'.last.name]]_vars

(***************************************************************************)
(* C32                                                                     *)
(***************************************************************************)

\* The answers of getJobStatus the call obtained, in order.
CmPolls(calls) == [i \in 1..(Len(calls) - 1) |-> calls[i + 1].answer]

\* The job is RUNNING, or SCHEDULED or PENDING with schedule type
\* Immediate.
UnderWay(answer) ==
    \/ answer.jobStatus = "RUNNING"
    \/ /\ answer.jobStatus \in {"SCHEDULED", "PENDING"}
       /\ answer.scheduleType = "Immediate"

CreatedDataset(op) ==
    \E i \in 1..Len(op.calls) :
        /\ op.calls[i].op = "StorageServiceDatasetProvision"
        /\ op.calls[i].ok

\* C33: whenever create_volume raises, discovered_luns and lun_table are as
\* before the call, and discovered_datasets is as before or longer by one
\* dataset, the one this call created on the server for the volume's
\* project and type.
C33_FailedCreate ==
    [][(Looks("create_volume") /\ last'.exc # "") =>
           /\ UNCHANGED <<discovered_luns, lun_table>>
           /\ IF CreatedDataset(last')
              THEN /\ ~last'.cached
                   /\ Len(discovered_datasets')
                          = Len(discovered_datasets) + 1
                   /\ SubSeq(discovered_datasets', 1,
                             Len(discovered_datasets)) = discovered_datasets
                   /\ LET ds == discovered_datasets'[Len(discovered_datasets')]
                      IN /\ ds.name = DatasetName(last'.project, last'.ss_type)
                         /\ ds.project = last'.project
                         /\ ds.id = nextId.ds
              ELSE UNCHANGED discovered_datasets]_vars

\* A create_volume of a name that lun_table holds has created a second
\* dataset and then failed in its edit.
C33_Witness ==
    /\ last.op = "create_volume"
    /\ last.exc = "NovaException: Failed to provision dataset member"
    /\ CreatedDataset(last)
    /\ Len(discovered_datasets) = 2
    /\ lun_table[last.name] # NoLun
    /\ discovered_luns # <<>>

(***************************************************************************)
(* C34                                                                     *)
(***************************************************************************)

\* C34: in every state between driver operations and right after one,
\* whether it returned or raised, every Lun in lun_table is an element of
\* discovered_luns and its dataset an element of discovered_datasets.
C34_CacheConsistent ==
    \A n \in Names :
        lun_table[n] # NoLun =>
            /\ \E i \in 1..Len(discovered_luns) :
                   discovered_luns[i] = lun_table[n]
            /\ \E j \in 1..Len(discovered_datasets) :
                   discovered_datasets[j] = lun_table[n].dataset

(***************************************************************************)
(* C35                                                                     *)
(***************************************************************************)

\* The calls hold a request `op` with the edit lock lock_id.
IssuedOn(calls, op, lock_id) ==
    \E i \in 1..Len(calls) : calls[i].op = op /\ calls[i].id = lock_id

\* C35: no create_volume and no delete_volume issues both
\* DatasetEditCommit and DatasetEditRollback with the edit lock it
\* acquired.
C35_CommitXorRollback ==
    [][(Looks("create_volume") \/ Looks("delete_volume")) =>
           ~(/\ IssuedOn(last'.calls, "DatasetEditCommit", last'.lock)
             /\ IssuedOn(last'.calls, "DatasetEditRollback", last'.lock))]_vars

(***************************************************************************)
(* C36                                                                     *)
(***************************************************************************)

\* C36: when initialize_connection raises, the filer's igroups and its
\* LUN-to-igroup mappings are as before the call.
C36_FailedAttach ==
    [][(Looks("initialize_connection") /\ last'.exc # "") =>
           UNCHANGED <<igroups, lunMaps>>]_vars

(***************************************************************************)
(* C37                                                                     *)
(***************************************************************************)

\* C37: when an _ensure_initiator_mapped has failed at one request, the
\* next _ensure_initiator_mapped with the same arguments, all of whose
\* requests the driver gets through to the filer, raises nothing and
\* returns a LUN number.
C37_AttachRetryable ==
    [][(/\ last # NoOp
        /\ last.op = "ensure_initiator_mapped"
        /\ last.exc # ""
        /\ last'.op = "ensure_initiator_mapped_again") =>
           /\ last'.exc = ""
           /\ last'.ret >= 0]_vars

(***************************************************************************)
(* C38                                                                     *)
(***************************************************************************)

\* Two entries of discovered_datasets carry one name.
TwoOfOneName ==
    \E i, j \in 1..Len(discovered_datasets) :
        /\ i # j
        /\ discovered_datasets[i].name = discovered_datasets[j].name

\* Callers c and d have both had StorageServiceDatasetProvision return a
\* dataset of one name.
BothCreated(c, d) ==
    /\ c # d
    /\ callers.at[c].calls # <<>> /\ callers.at[d].calls # <<>>
    /\ callers.at[c].calls[1].op = "StorageServiceDatasetProvision"
    /\ callers.at[d].calls[1].op = "StorageServiceDatasetProvision"
    /\ callers.at[c].calls[1].ok /\ callers.at[d].calls[1].ok
    /\ callers.at[c].calls[1].name = callers.at[d].calls[1].name

\* C38: with the callers of create_volume serialized, no two of them get a
\* dataset of one name created, and discovered_datasets never holds two
\* entries of one name; two entries of one name are what callers that run
\* at the same time leave behind.
C38_SerializedCreates ==
    callers.serialized =>
        /\ ~TwoOfOneName
        /\ \A c, d \in Callers : ~BothCreated(c, d)

\* Two callers that were not serialized have returned from create_volume
\* for one project, each after its own dataset-create call, and
\* discovered_datasets holds two entries of one name.
C38_Witness ==
    /\ ~callers.serialized
    /\ BothCreated(1, 2)
    /\ callers.at[1].pc = "returned" /\ callers.at[2].pc = "returned"
    /\ callers.at[1].project = callers.at[2].project
    /\ Len(discovered_datasets) = 2
    /\ TwoOfOneName

(***************************************************************************)
(* C39                                                                     *)
(***************************************************************************)

\* C39: when create_volume(name, project, storage class) returns, the Lun
\* it has stored for the volume belongs to a dataset of the requested
\* project and the requested storage class.
C39_RequestersDataset ==
    [][(Looks("create_volume") /\ last'.exc = "") =>
           /\ lun_table'[last'.name] # NoLun
           /\ lun_table'[last'.name].dataset.project = last'.project
           /\ lun_table'[last'.name].dataset.type = last'.ss_type]_vars

(***************************************************************************)
(* C40                                                                     *)
(***************************************************************************)

\* The place of a remote call in the order resize, qtree create, clone
\* start, clone poll, LUN refresh, refresh poll, member discovery.
CloneStep(op) ==
    CASE op = "LunListInfoIter" -> 0
      [] op = "volume-size" -> 1
      [] op = "qtree-create" -> 2
      [] op = "clone-start" -> 3
      [] op = "clone-list-status" -> 4
      [] op = "DfmObjectRefresh" -> 5
      [] op = "DfmMonitorTimestampList" -> 6
      [] op = "DatasetMemberListInfoIter" -> 7
      [] OTHER -> 8

\* The calls are those seven kinds, all of them, in that order.
CloneInOrder(calls) ==
    /\ \A k \in 1..7 : \E i \in 1..Len(calls) : CloneStep(calls[i].op) = k
    /\ \A i, j \in 1..Len(calls) :
           i < j => CloneStep(calls[i].op) <= CloneStep(calls[j].op)
    /\ \A i \in 1..Len(calls) : CloneStep(calls[i].op) < 8

\* The volume's size differs from the snapshot's, or its storage class from
\* the type of the dataset of the snapshot's volume.
CloneMismatch(size, type, snapshot) ==
    \/ size # snapshot.volume_size
    \/ LET lk == LookupWithoutStoring(snapshot.volume_name, snapshot.project)
       IN lk.exc = "" /\ lk.lun.dataset.type # type

\* _lookup_lun_for_volume(name, project) returns the clone of `source`
\* named `name`.
ResolvesClone(name, project, source) ==
    LET lk == LookupWithoutStoring(name, project)
    IN /\ lk.exc = ""
       /\ lk.lun.dataset = source.dataset
       /\ lk.lun.lunpath = ClonePath(source.dataset.name, name)

\* C40: create_volume_from_snapshot raises without a remote call when the
\* sizes or the storage classes differ; when it returns it has made, in
\* order, the calls for the resize, the qtree, the clone and its polls, the
\* LUN refresh and its polls and the member discovery, and then
\* _lookup_lun_for_volume(volume name, volume's project) returns the clone.
C40_CloneFromSnapshot ==
    [][Looks("create_volume_from_snapshot") =>
           /\ CloneMismatch(last'.size, last'.ss_type, last'.snapshot) =>
                  /\ last'.exc # ""
                  /\ last'.calls = <<>>
           /\ last'.exc = "" =>
                  /\ CloneInOrder(last'.calls)
                  /\ ResolvesClone(last.name, last.project, last.ret)']_vars
=============================================================================
